---- MODULE Spec2Model ----
(***************************************************************************)
(* A model of reago, a client library for the Rackspace Email REST API:    *)
(* the request pipeline Client.Do (rate limiting, transport, response      *)
(* classification, decoding), the response classifier CheckResponse, the   *)
(* resource accessors and their listing loops.                             *)
(***************************************************************************)
EXTENDS Integers, Sequences, FiniteSets, TLC

(***************************************************************************)
(* JSON documents, as encoding/json sees them.  A body is a record tagged  *)
(* by t: "empty" (zero bytes), "text" (bytes that are not JSON), or a JSON *)
(* value: "null", "num", "str", "arr" (a the sequence of its elements) or  *)
(* "obj" (f the function from its keys to their values).  Keys are written *)
(* in lower case: encoding/json matches a key to a struct field without    *)
(* regard to case.                                                         *)
(***************************************************************************)
JNull == [t |-> "null"]
JNum(n) == [t |-> "num", n |-> n]
JStr(s) == [t |-> "str", s |-> s]
JArr(a) == [t |-> "arr", a |-> a]
JObj(f) == [t |-> "obj", f |-> f]
EmptyBody == [t |-> "empty"]
TextBody == [t |-> "text"]

\* A Go string value: either a literal or string(data), the bytes of a body.
Lit(s) == [k |-> "lit", s |-> s]
RawOf(data) == [k |-> "raw", data |-> data]

Has(o, key) == key \in DOMAIN o.f

\* All functions from a subset of keys to the values each key may take.
PartialFns(keys, vals(_)) ==
    UNION {{g \in [ks -> UNION {vals(k) : k \in ks}] : \A k \in ks : g[k] \in vals(k)} :
           ks \in SUBSET keys}

(***************************************************************************)
(* http.Response and ErrorResponse (reago.go).  A response r is            *)
(* [StatusCode, Body, BodyErr, BodyRead, Request]: Body is the data the    *)
(* body holds, BodyErr says that reading it fails, BodyRead that it has    *)
(* been read, Closed that it has been closed, CloseErr that closing it      *)
(* fails, Request is [Method, URL].  An ErrorResponse holds a              *)
(* pointer to the response (Response: "ptr", or "nil"), Message and        *)
(* RequestID.                                                              *)
(***************************************************************************)
NoError == [kind |-> "nil"]

HTTPResponse(status, data, bodyErr, method, url) ==
    [StatusCode |-> status, Body |-> data, BodyErr |-> bodyErr, BodyRead |-> FALSE,
     Closed |-> FALSE, CloseErr |-> FALSE,
     Request |-> [Method |-> method, URL |-> url]]

\* A JSON value stored into a Go field of JSON kind want ("str", "num", "obj"):
\* null leaves the field alone, any other kind is an UnmarshalTypeError.
TypeError(val, want) == val.t \notin {want, "null"}

\* json decoding of the object val into the http.Response r that the
\* ErrorResponse points to: the decoder follows the non-nil pointer and stores
\* into the pointed-to struct (field StatusCode).
DecodeIntoHTTPResponse(val, r) ==
    IF Has(val, "statuscode")
    THEN LET sc == val.f["statuscode"]
         IN  [err |-> TypeError(sc, "num"),
              r |-> IF sc.t = "num" THEN [r EXCEPT !.StatusCode = sc.n] ELSE r]
    ELSE [err |-> FALSE, r |-> r]

\* json.Unmarshal(data, errorResponse): e is the ErrorResponse, r the response
\* it points to.  The exported fields are Response (no tag, so key "response"),
\* Message (key "message") and RequestID (key "request_id").  A syntax error
\* stores nothing; a type error is remembered and decoding goes on.
UnmarshalErrorResponse(data, e, r) ==
    CASE data.t = "text" -> [err |-> TRUE, e |-> e, r |-> r]
      [] data.t = "null" -> [err |-> FALSE, e |-> e, r |-> r]
      [] data.t \in {"num", "str", "arr"} -> [err |-> TRUE, e |-> e, r |-> r]
      [] data.t = "obj" ->
           LET msg == IF Has(data, "message") THEN data.f["message"] ELSE JNull
               rid == IF Has(data, "request_id") THEN data.f["request_id"] ELSE JNull
               rsp == IF Has(data, "response") THEN data.f["response"] ELSE JStr("absent")
               sub == IF Has(data, "response") /\ rsp.t = "obj"
                      THEN DecodeIntoHTTPResponse(rsp, r)
                      ELSE [err |-> FALSE, r |-> r]
           IN  [err |-> \/ TypeError(msg, "str")
                        \/ TypeError(rid, "str")
                        \/ (Has(data, "response") /\ TypeError(rsp, "obj"))
                        \/ sub.err,
                e |-> [e EXCEPT
                         !.Message = IF msg.t = "str" THEN Lit(msg.s) ELSE @,
                         !.RequestID = IF rid.t = "str" THEN Lit(rid.s) ELSE @,
                         !.Response = IF Has(data, "response") /\ rsp.t = "null"
                                      THEN "nil" ELSE @],
                r |-> sub.r]

\* CheckResponse(r): [err, r], the error returned and the response as the call
\* leaves it.
\* A CheckResponse that ignores every body it cannot decode.
CheckResponseMutantIgnore(r) ==
    IF r.StatusCode >= 200 /\ r.StatusCode <= 299
    THEN [err |-> NoError, r |-> r]
    ELSE LET e0 == [kind |-> "ErrorResponse", Response |-> "ptr",
                    Message |-> Lit(""), RequestID |-> Lit("")]
             r0 == [r EXCEPT !.BodyRead = TRUE]
         IN  IF ~r.BodyErr /\ r.Body.t # "empty"
             THEN [err |-> UnmarshalErrorResponse(r.Body, e0, r0).e,
                   r |-> UnmarshalErrorResponse(r.Body, e0, r0).r]
             ELSE [err |-> e0, r |-> r0]

CheckResponse(r) ==
    IF r.StatusCode >= 200 /\ r.StatusCode <= 299
    THEN [err |-> NoError, r |-> r]
    ELSE LET e0 == [kind |-> "ErrorResponse", Response |-> "ptr",
                    Message |-> Lit(""), RequestID |-> Lit("")]
             r0 == [r EXCEPT !.BodyRead = TRUE]
         IN  IF ~r.BodyErr /\ r.Body.t # "empty"
             THEN LET u == UnmarshalErrorResponse(r.Body, e0, r0)
                  IN  [err |-> IF u.err
                               THEN [u.e EXCEPT !.Message = RawOf(r.Body)]
                               ELSE u.e,
                       r |-> u.r]
             ELSE [err |-> e0, r |-> r0]

(***************************************************************************)
(* Constants of reago.go and the bounds of the model.                      *)
(***************************************************************************)
defaultPageSize == 50
userAgent == "reago/1.0"
mediaType == "application/json"
defaultGetBurst == 1
defaultPutPostDeleteBurst == 1

\* Concurrent callers of one client.
MaxCalls == 2
\* Page fetches of one listing call (a service that never satisfies the stop
\* condition makes the loop run for ever).
MaxFetches == 3
\* Items the service holds.
MaxItems == 3
\* The last reading of the clock.
MaxTime == 2
\* Options passed to one New call.
MaxOptions == 2

\* The New calls of a program, each returning a client of its own.
ClientIds == {1, 2}

Calls == 1 .. MaxCalls
Methods == {"GET", "POST", "PUT", "DELETE", "PATCH"}

VARIABLES
    getLimiter,            \* Client.getLimiter: [burst, tokens]
    putPostDeleteLimiter,  \* Client.putPostDeleteLimiter: [burst, tokens]
    refilled,              \* per bucket: the tokens refilled since the client was built
    UserAgent,             \* Client.UserAgent
    userKey,               \* Client.userKey
    secretKey,             \* Client.secretKey
    now,                   \* the clock that time.Now reads
    exited,                \* log.Fatal has ended the process
    pc,                    \* per call: where the call stands
    op,                    \* per call: the operation called and its arguments
    ctx,                   \* per call: the caller's context, "live" or "done"
    req,                   \* per call: the request built by NewRequest
    wait,                  \* per call: refills until the reserved token is due
    token,                 \* per call: the bucket the running Do took its token from
    resp,                  \* per call: the http.Response the transport returned
    v,                     \* per call: the destination passed to Do
    doRet,                 \* per call: what Do returned
    ret,                   \* per call: what the operation returned
    opt,                   \* per call: the PageOptions the listing loop works on
    acc,                   \* per call: the items the listing loop has accumulated
    sent,                  \* per call: the requests handed to the transport
    began,                 \* per call: the time at which the running Do was entered
    crIn,                  \* the response given to a direct CheckResponse call
    crOut,                 \* what that call returned
    nrIn,                  \* the arguments of a direct NewRequest call
    nrOut,                 \* the request that call returned
    heap,                  \* the rate.Limiter objects made by rate.NewLimiter, by address
    clients,               \* per New call: the Client it returned
    newRet,                \* per New call: what New returned
    issued                 \* per client: the requests that passed its limiters

limiterVars == <<getLimiter, putPostDeleteLimiter, refilled>>
configVars == <<UserAgent, userKey, secretKey>>
callVars == <<pc, op, ctx, req, wait, token, resp, v, doRet, ret, opt, acc, sent, began>>
crVars == <<crIn, crOut>>
nrVars == <<nrIn, nrOut>>
clientsVars == <<heap, clients, newRet, issued>>
vars == <<limiterVars, configVars, clientsVars, now, exited, callVars, crVars, nrVars, clientsVars>>

NoRequest == [Method |-> "none"]
NoResponse == [StatusCode |-> 0]
NoReturn == [set |-> FALSE]
NoOp == [name |-> "none"]
NoClient == [built |-> FALSE]
NilOptions == [ptr |-> "nil", Offset |-> 0, Size |-> 0]
NilDest == [type |-> "nil"]

\* rate.NewLimiter(limit, burst): a bucket that starts full.
NewLimiter(burst) == [burst |-> burst, tokens |-> burst]

\* The switch on req.Method at the head of Do.
BucketMutantShared(method) == "putPostDelete"

BucketMutantSwapped(method) == IF method = "GET" THEN "putPostDelete" ELSE "get"

Bucket(method) == IF method = "GET" THEN "get" ELSE "putPostDelete"

Limiter(b) == IF b = "get" THEN getLimiter ELSE putPostDeleteLimiter

\* The calls that wait for a token of bucket b.
Waiting(b) == {c \in Calls : pc[c] = "waiting" /\ Bucket(req[c].Method) = b}

SetLimiter(b, lim) ==
    /\ getLimiter' = IF b = "get" THEN lim ELSE getLimiter
    /\ putPostDeleteLimiter' = IF b = "putPostDelete" THEN lim ELSE putPostDeleteLimiter

(***************************************************************************)
(* Errors and return values.                                               *)
(***************************************************************************)
ContextError == [kind |-> "context"]
TransportError == [kind |-> "transport"]
\* A Do that reports a body it cannot decode as an API error.
DecodeErrorMutantAPIError ==
    [kind |-> "ErrorResponse", Response |-> "ptr", Message |-> Lit(""), RequestID |-> Lit("")]

DecodeError == [kind |-> "decode"]
CopyError == [kind |-> "copy"]
ArgError(arg) == [kind |-> "ArgError", arg |-> arg]

\* What Do returns: Response is "ptr" (the wrapped response of the call) or "nil".
DoReturn(response, err) == [set |-> TRUE, Response |-> response, err |-> err]

(***************************************************************************)
(* Decoding a 2xx body into the destination v (json.NewDecoder(body).      *)
(* Decode(v)).  v is [type, val]; the listing roots hold Offset, Size,     *)
(* Total and Items, a domainRoot holds Domain, a RackspaceEmailAliasShow   *)
(* holds Name and EmailAddressList.  Zero bytes are an io.EOF error.       *)
(***************************************************************************)
ZeroPage == [Offset |-> 0, Size |-> 0, Total |-> 0, Items |-> <<>>]
ItemsKey(type) == IF type = "domainsRoot" THEN "domains" ELSE "aliases"

Field(data, key, want, old, get(_)) ==
    IF Has(data, key) /\ data.f[key].t = want THEN get(data.f[key]) ELSE old

FieldError(data, key, want) == Has(data, key) /\ TypeError(data.f[key], want)

NumOf(j) == j.n
StrOf(j) == j.s
ArrOf(j) == j.a
ObjOf(j) == j

DecodeObject(data, dest) ==
    CASE dest.type \in {"domainsRoot", "rackspaceEmailAliasesRoot"} ->
           [err |-> \/ \E k \in {"offset", "size", "total"} : FieldError(data, k, "num")
                    \/ FieldError(data, ItemsKey(dest.type), "arr"),
            v |-> [dest EXCEPT !.val =
                     [Offset |-> Field(data, "offset", "num", @.Offset, NumOf),
                      Size |-> Field(data, "size", "num", @.Size, NumOf),
                      Total |-> Field(data, "total", "num", @.Total, NumOf),
                      Items |-> Field(data, ItemsKey(dest.type), "arr", @.Items, ArrOf)]]]
      [] dest.type = "domainRoot" ->
           [err |-> FieldError(data, "domain", "obj"),
            v |-> [dest EXCEPT !.val =
                     [Domain |-> Field(data, "domain", "obj", @.Domain, ObjOf)]]]
      [] dest.type = "RackspaceEmailAliasShow" ->
           [err |-> FieldError(data, "name", "str")
                    \/ FieldError(data, "emailaddresslist", "obj"),
            v |-> [dest EXCEPT !.val =
                     [Name |-> Field(data, "name", "str", @.Name, StrOf),
                      EmailAddressList |->
                          Field(data, "emailaddresslist", "obj", @.EmailAddressList, ObjOf)]]]

Decode(data, dest) ==
    CASE data.t \in {"empty", "text"} -> [err |-> TRUE, v |-> dest]
      [] data.t = "null" -> [err |-> FALSE, v |-> dest]
      [] data.t \in {"num", "str", "arr"} -> [err |-> TRUE, v |-> dest]
      [] data.t = "obj" -> DecodeObject(data, dest)

\* The destinations: nil, an io.Writer (fails says that its Write fails), or a
\* pointer to a fresh struct.
Writer(fails) == [type |-> "writer", fails |-> fails, written |-> EmptyBody]
NewRoot(type) ==
    [type |-> type,
     val |-> CASE type \in {"domainsRoot", "rackspaceEmailAliasesRoot"} -> ZeroPage
               [] type = "domainRoot" -> [Domain |-> JNull]
               [] type = "RackspaceEmailAliasShow" ->
                    [Name |-> "", EmailAddressList |-> JNull]]

(***************************************************************************)
(* Do, from the transport's response r on (reago.go 310-346): the deferred *)
(* Body.Close, DumpResponse, CheckResponse and the dispatch on v.  The     *)
(* result is [fatal, ret, resp, v].  DumpResponse reads the whole body and *)
(* puts an in-memory copy in its place; when that read fails, log.Fatal    *)
(* ends the process (no deferred call runs).                               *)
(***************************************************************************)
\* A Do that decodes the body before it looks at the status.
DoAfterTransportMutantDecodeOnError(r, dest) ==
    LET d == Decode(r.Body, dest)
    IN  [fatal |-> FALSE, ret |-> DoReturn("nil", CheckResponse(r).err),
         resp |-> [r EXCEPT !.Closed = TRUE],
         v |-> IF dest.type \in {"nil", "writer"} THEN dest ELSE d.v]

\* A Do that does not ask whether v is an io.Writer and decodes into any v.
DoAfterTransportMutantNoSink(r, dest) ==
    LET cr == CheckResponse(r)
        d == IF dest.type \in {"nil", "writer"} THEN [err |-> dest.type = "writer", v |-> dest]
             ELSE Decode(r.Body, dest)
    IN  IF r.BodyErr THEN [fatal |-> TRUE, ret |-> NoReturn, resp |-> r, v |-> dest]
        ELSE IF cr.err # NoError
        THEN [fatal |-> FALSE, ret |-> DoReturn("ptr", cr.err),
              resp |-> [cr.r EXCEPT !.Closed = TRUE], v |-> dest]
        ELSE [fatal |-> FALSE,
              ret |-> IF d.err THEN DoReturn("nil", DecodeError) ELSE DoReturn("ptr", NoError),
              resp |-> [r EXCEPT !.Closed = TRUE, !.BodyRead = dest.type # "nil"],
              v |-> d.v]

DoAfterTransport(r, dest) ==
    IF r.BodyErr
    THEN [fatal |-> TRUE, ret |-> NoReturn, resp |-> r, v |-> dest]
    ELSE LET cr == CheckResponse(r)
             closed(x) == [x EXCEPT !.Closed = TRUE]
             read(x) == [x EXCEPT !.Closed = TRUE, !.BodyRead = TRUE]
         IN  CASE cr.err # NoError ->
                    [fatal |-> FALSE, ret |-> DoReturn("ptr", cr.err),
                     resp |-> closed(cr.r), v |-> dest]
               [] cr.err = NoError /\ dest.type = "nil" ->
                    [fatal |-> FALSE, ret |-> DoReturn("ptr", NoError),
                     resp |-> closed(r), v |-> dest]
               [] cr.err = NoError /\ dest.type = "writer" ->
                    IF dest.fails
                    THEN [fatal |-> FALSE, ret |-> DoReturn("nil", CopyError),
                          resp |-> read(r), v |-> dest]
                    ELSE [fatal |-> FALSE, ret |-> DoReturn("ptr", NoError),
                          resp |-> read(r), v |-> [dest EXCEPT !.written = r.Body]]
               [] OTHER ->
                    LET d == Decode(r.Body, dest)
                    IN  [fatal |-> FALSE,
                         ret |-> IF d.err THEN DoReturn("nil", DecodeError)
                                 ELSE DoReturn("ptr", NoError),
                         resp |-> read(r), v |-> d.v]

(***************************************************************************)
(* NewRequest and addOptions.  A URL is the sequence of its path segments; *)
(* the query holds offset and size, 0 standing for a parameter that is     *)
(* left out (the url tags say omitempty).                                  *)
(***************************************************************************)
NoQuery == [offset |-> 0, size |-> 0]
addOptions(o) == [offset |-> o.Offset, size |-> o.Size]

\* A sign that takes the timestamp once and keeps it.
signMutantCached(ua, ts) ==
    [identity |-> userKey, ts |-> 0, hash |-> <<userKey, ua, 0, secretKey>>]

\* sign: the header value is userKey:ts:base64(sha1(userKey ua ts secretKey));
\* the hash stands as the tuple of what is hashed.
sign(ua, ts) ==
    [identity |-> userKey, ts |-> ts, hash |-> <<userKey, ua, ts, secretKey>>]

\* A NewRequest that sets the JSON Content-Type whatever the method.
NewRequestAtMutantJSON(t, method, url, query, body) ==
    [Method |-> method, URL |-> url, Query |-> query, Body |-> body,
     ContentType |-> mediaType,
     Accept |-> mediaType,
     UserAgent |-> UserAgent,
     XApiSignature |-> <<sign(UserAgent, t)>>]

\* NewRequest called at the time t.  Header.Add appends: XApiSignature is the
\* sequence of the values of the header.
NewRequestAt(t, method, url, query, body) ==
    [Method |-> method, URL |-> url, Query |-> query, Body |-> body,
     ContentType |-> IF method = "POST" THEN "application/x-www-form-urlencoded"
                     ELSE mediaType,
     Accept |-> mediaType,
     UserAgent |-> UserAgent,
     XApiSignature |-> <<sign(UserAgent, t)>>]

NewRequest(method, url, query, body) == NewRequestAt(now, method, url, query, body)

domainsBasePath == <<"v1", "domains">>
rackspaceEmailAliasesBasePath(domain) == <<"v1", "domains", domain, "rs", "aliases">>

(***************************************************************************)
(* The service behind the transport.  It answers a request with a status,  *)
(* a body and possibly a body that cannot be read.  An honest listing      *)
(* service holds the items 1 .. n and answers the page (offset, size) with *)
(* the envelope of that page; a request without size gets the service's    *)
(* default page size.                                                      *)
(***************************************************************************)
Min(a, b) == IF a < b THEN a ELSE b

Envelope(type, offset, size, total, items) ==
    JObj([k \in {"offset", "size", "total", ItemsKey(type)} |->
            CASE k = "offset" -> JNum(offset)
              [] k = "size" -> JNum(size)
              [] k = "total" -> JNum(total)
              [] OTHER -> JArr(items)])

HonestPage(type, n, q) ==
    LET size == IF q.size = 0 THEN defaultPageSize ELSE q.size
    IN  Envelope(type, q.offset, size, n,
                 [i \in 1 .. (IF q.offset >= n THEN 0 ELSE Min(size, n - q.offset)) |->
                    q.offset + i])

Answer(status, body) ==
    [status |-> status, body |-> body, bodyErr |-> FALSE, closeErr |-> FALSE]

\* A body that fails while it is read, and a body whose Close fails.
BrokenBody == [status |-> 200, body |-> EmptyBody, bodyErr |-> TRUE, closeErr |-> FALSE]
CloseFails == [status |-> 200, body |-> JNull, bodyErr |-> FALSE, closeErr |-> TRUE]

ErrorEnvelope ==
    JObj([k \in {"message", "request_id"} |->
            IF k = "message" THEN JStr("not found") ELSE JStr("abc")])

\* Any envelope, whatever was asked for; the k-th page carries the item k.  The
\* last one reports no offset, size or total.
AnyPages(type, k) ==
    {Envelope(type, o, sz, t, <<k>>) : o \in 0 .. 1, sz \in 0 .. 1, t \in {0, 2, 3}}
    \cup {JObj([x \in {ItemsKey(type)} |-> JArr(<<k>>)])}

\* Any offset and size, whatever was asked for, but the same total t on every
\* page, and no items.
SameTotalPages(type, t) ==
    {Envelope(type, o, sz, t, <<>>) : o \in 0 .. 1, sz \in 0 .. 1}

\* A service that is not honest and has n > 0 reports the total n on every page.
ListingAnswers(c) ==
    LET type == v[c].type
    IN  IF op[c].service.honest
        THEN {Answer(200, HonestPage(type, op[c].service.n, req[c].Query))}
        ELSE IF op[c].service.n > 0
        THEN {Answer(200, b) :
                b \in SameTotalPages(type, op[c].service.n)}
        ELSE {Answer(200, b) : b \in AnyPages(type, Len(sent[c]) + 1)}
             \cup {Answer(200, TextBody), Answer(404, ErrorEnvelope)}

OtherAnswers ==
    {Answer(st, b) :
        st \in {200, 404},
        b \in {EmptyBody, TextBody, ErrorEnvelope,
               JObj([k \in {"response"} |-> JNull]),
               JObj([k \in {"response"} |-> JObj([n \in {"statuscode"} |-> JNum(200)])]),
               JObj([k \in {"domain"} |-> JObj([n \in {"name"} |-> JStr("foo.com")])]),
               JObj([k \in {"name"} |-> JStr("bar")])}}
    \cup {BrokenBody, CloseFails}

IsListing(c) == op[c].name \in {"Domains.Index", "RackspaceEmailAliases.Index"}

\* What a caller's own request may be answered with.  A Do without destination
\* does not look at a 2xx body, so one such body stands for all.
DoAnswers(dest) ==
    {Answer(200, EmptyBody), Answer(404, ErrorEnvelope), BrokenBody, CloseFails}
    \cup IF dest.type = "nil" THEN {}
         ELSE {Answer(200, JObj([k \in {"domain"} |->
                                   JObj([n \in {"name"} |-> JStr("foo.com")])]))}

Answers(c) ==
    CASE IsListing(c) -> ListingAnswers(c)
      [] op[c].name = "Do" -> DoAnswers(v[c])
      [] OTHER -> OtherAnswers

(***************************************************************************)
(* The initial state: NewClient has built the client, no call has begun.   *)
(***************************************************************************)
NoCheck == [called |-> FALSE]

InitLimiters ==
    /\ getLimiter = NewLimiter(defaultGetBurst)
    /\ putPostDeleteLimiter = NewLimiter(defaultPutPostDeleteBurst)
    /\ refilled = [b \in {"get", "putPostDelete"} |-> 0]
    /\ now = 0
    /\ exited = FALSE

InitClient ==
    /\ InitLimiters
    /\ UserAgent = userAgent
    /\ userKey = ""
    /\ secretKey = ""

\* The client built by New with SetUserAgent, SetUserKey and SetSecretKey.
UserAgents == {userAgent, "custom/2.0"}
UserKeys == {"", "userkey"}
SecretKeys == {"secret"}

InitConfigured ==
    /\ InitLimiters
    /\ UserAgent \in UserAgents
    /\ userKey \in UserKeys
    /\ secretKey \in SecretKeys

InitCalls ==
    /\ pc = [c \in Calls |-> "idle"]
    /\ op = [c \in Calls |-> NoOp]
    /\ ctx = [c \in Calls |-> "live"]
    /\ req = [c \in Calls |-> NoRequest]
    /\ wait = [c \in Calls |-> 0]
    /\ token = [c \in Calls |-> "none"]
    /\ resp = [c \in Calls |-> NoResponse]
    /\ v = [c \in Calls |-> NilDest]
    /\ doRet = [c \in Calls |-> NoReturn]
    /\ ret = [c \in Calls |-> NoReturn]
    /\ opt = [c \in Calls |-> NilOptions]
    /\ acc = [c \in Calls |-> <<>>]
    /\ sent = [c \in Calls |-> <<>>]
    /\ began = [c \in Calls |-> 0]
    /\ heap = <<>>
    /\ clients = [k \in ClientIds |-> NoClient]
    /\ newRet = [k \in ClientIds |-> NoReturn]
    /\ issued = [k \in ClientIds |-> 0]

Init ==
    /\ InitClient
    /\ InitCalls
    /\ crIn = NoResponse
    /\ crOut = NoCheck
    /\ nrIn = NoRequest
    /\ nrOut = NoRequest

(***************************************************************************)
(* The steps of Client.Do.                                                 *)
(***************************************************************************)
\* An operation calls Do with the request r and the destination dest.
CallDo(c, r, dest) ==
    /\ req' = [req EXCEPT ![c] = r]
    /\ v' = [v EXCEPT ![c] = dest]
    /\ token' = [token EXCEPT ![c] = "none"]
    /\ doRet' = [doRet EXCEPT ![c] = NoReturn]
    /\ began' = [began EXCEPT ![c] = now]
    /\ pc' = [pc EXCEPT ![c] = "wait"]

\* An operation returns to its caller.
Return(c, value, response, err) ==
    /\ ret' = [ret EXCEPT ![c] =
                 [set |-> TRUE, value |-> value, Response |-> response, err |-> err]]
    /\ pc' = [pc EXCEPT ![c] = "done"]

\* A Wait that lets a call pass on a token without taking it from the bucket.
LimiterWaitMutantNoTake(c) ==
    /\ ~exited
    /\ pc[c] = "wait"
    /\ LET b == Bucket(req[c].Method)
           lim == Limiter(b)
       IN  IF ctx[c] = "done"
           THEN /\ doRet' = [doRet EXCEPT ![c] = DoReturn("nil", ContextError)]
                /\ pc' = [pc EXCEPT ![c] = "returned"]
                /\ UNCHANGED <<limiterVars, wait, token>>
           ELSE /\ SetLimiter(b, IF lim.tokens >= 1 THEN lim ELSE [lim EXCEPT !.tokens = @ - 1])
                /\ UNCHANGED refilled
                /\ IF lim.tokens >= 1
                   THEN /\ token' = [token EXCEPT ![c] = b]
                        /\ pc' = [pc EXCEPT ![c] = "transport"]
                        /\ UNCHANGED wait
                   ELSE /\ wait' = [wait EXCEPT ![c] = 1 - lim.tokens]
                        /\ pc' = [pc EXCEPT ![c] = "waiting"]
                        /\ UNCHANGED token
                /\ UNCHANGED doRet
    /\ UNCHANGED <<exited, op, ctx, req, resp, v, ret, opt, acc, sent, crVars, nrVars,
                   configVars, clientsVars, now, began>>

\* limiter.Wait(ctx) is entered: a context that is done fails it at once;
\* otherwise a token is reserved, and the call goes on when the token is there
\* or waits for the refills that bring it.
LimiterWait(c) ==
    /\ ~exited
    /\ pc[c] = "wait"
    /\ LET b == Bucket(req[c].Method)
           lim == Limiter(b)
       IN  IF ctx[c] = "done"
           THEN /\ doRet' = [doRet EXCEPT ![c] = DoReturn("nil", ContextError)]
                /\ pc' = [pc EXCEPT ![c] = "returned"]
                /\ UNCHANGED <<limiterVars, wait, token>>
           ELSE /\ SetLimiter(b, [lim EXCEPT !.tokens = @ - 1])
                /\ UNCHANGED refilled
                /\ IF lim.tokens >= 1
                   THEN /\ token' = [token EXCEPT ![c] = b]
                        /\ pc' = [pc EXCEPT ![c] = "transport"]
                        /\ UNCHANGED wait
                   ELSE /\ wait' = [wait EXCEPT ![c] = 1 - lim.tokens]
                        /\ pc' = [pc EXCEPT ![c] = "waiting"]
                        /\ UNCHANGED token
                /\ UNCHANGED doRet
    /\ UNCHANGED <<exited, op, ctx, req, resp, v, ret, opt, acc, sent, crVars, nrVars,
                   configVars, clientsVars, now, began>>

\* Time passes: bucket b gains a token, the reserved tokens come nearer.  The
\* refills are counted up to MaxFetches.
Refill(b) ==
    /\ ~exited
    /\ Limiter(b).tokens < Limiter(b).burst
    /\ SetLimiter(b, [Limiter(b) EXCEPT !.tokens = @ + 1])
    /\ refilled' = [refilled EXCEPT ![b] = IF @ < MaxFetches THEN @ + 1 ELSE @]
    /\ wait' = [c \in Calls |->
                  IF c \in Waiting(b) /\ wait[c] > 0 THEN wait[c] - 1 ELSE wait[c]]
    /\ UNCHANGED <<exited, pc, op, ctx, req, token, resp, v, doRet, ret, opt, acc, sent,
                   crVars, nrVars,
                   configVars, clientsVars, now, began>>

\* The reserved token is due: Wait returns nil.
LimiterWaitDone(c) ==
    /\ ~exited
    /\ pc[c] = "waiting"
    /\ wait[c] = 0
    /\ token' = [token EXCEPT ![c] = Bucket(req[c].Method)]
    /\ pc' = [pc EXCEPT ![c] = "transport"]
    /\ UNCHANGED <<limiterVars, exited, op, ctx, req, wait, resp, v, doRet, ret, opt, acc,
                   sent, crVars, nrVars,
                   configVars, clientsVars, now, began>>

\* A Wait that ignores the context once it sleeps.
LimiterWaitCancelledMutantIgnore(c) ==
    /\ ~exited
    /\ pc[c] = "waiting"
    /\ ctx[c] = "done"
    /\ token' = [token EXCEPT ![c] = Bucket(req[c].Method)]
    /\ pc' = [pc EXCEPT ![c] = "transport"]
    /\ UNCHANGED <<limiterVars, exited, op, ctx, req, wait, resp, v, doRet, ret, opt, acc,
                   sent, crVars, nrVars,
                   configVars, clientsVars, now, began>>

\* The context is done while Wait sleeps: Wait gives the reservation back (the
\* token returns to the bucket unless the token is due or a later reservation
\* was made) and returns the context's error; Do returns nil and that error.
\* wait[c] keeps the time that was left.
LimiterWaitCancelled(c) ==
    /\ ~exited
    /\ pc[c] = "waiting"
    /\ ctx[c] = "done"
    /\ LET b == Bucket(req[c].Method)
           lim == Limiter(b)
           last == \A d \in Waiting(b) : wait[d] <= wait[c]
       IN  SetLimiter(b, IF wait[c] > 0 /\ last THEN [lim EXCEPT !.tokens = @ + 1]
                         ELSE lim)
    /\ UNCHANGED refilled
    /\ doRet' = [doRet EXCEPT ![c] = DoReturn("nil", ContextError)]
    /\ pc' = [pc EXCEPT ![c] = "returned"]
    /\ UNCHANGED <<exited, op, ctx, req, wait, token, resp, v, ret, opt, acc, sent, crVars, nrVars,
                   configVars, clientsVars, now, began>>

\* The caller cancels the context of call c, or its deadline passes.
Cancel(c) ==
    /\ ~exited
    /\ ctx[c] = "live"
    /\ pc[c] \notin {"done", "fatal"}
    /\ ctx' = [ctx EXCEPT ![c] = "done"]
    /\ UNCHANGED <<limiterVars, exited, pc, op, req, wait, token, resp, v, doRet, ret, opt,
                   acc, sent, crVars, nrVars,
                   configVars, clientsVars, now, began>>

\* The log of a call keeps its last MaxFetches requests.
Logged(log, e) ==
    IF Len(log) < MaxFetches THEN Append(log, e) ELSE Append(Tail(log), e)

\* A Do that hands the request to the transport again when the transport fails.
TransportMutantRetry(c) ==
    /\ ~exited
    /\ pc[c] = "transport"
    /\ sent' = [sent EXCEPT ![c] = Append(@, [req |-> req[c], token |-> token[c],
                                               began |-> began[c], at |-> now])]
    /\ \/ /\ Len(sent[c]) < MaxFetches
          /\ UNCHANGED <<pc, doRet, resp>>
       \/ /\ ctx[c] = "live"
          /\ \E a \in Answers(c) :
                resp' = [resp EXCEPT ![c] =
                           [HTTPResponse(a.status, a.body, a.bodyErr,
                                         req[c].Method, req[c].URL)
                              EXCEPT !.CloseErr = a.closeErr]]
          /\ pc' = [pc EXCEPT ![c] = "response"]
          /\ UNCHANGED doRet
    /\ UNCHANGED <<limiterVars, exited, op, ctx, req, wait, token, v, ret, opt, acc, crVars, nrVars,
                   configVars, clientsVars, now, began>>

\* DoRequestWithClient: the request is handed to the transport, which fails
\* (always so when the context is done) or returns the service's answer.
Transport(c) ==
    /\ ~exited
    /\ pc[c] = "transport"
    /\ sent' = [sent EXCEPT ![c] = Logged(@, [req |-> req[c], token |-> token[c],
                                               began |-> began[c], at |-> now])]
    /\ \/ /\ doRet' = [doRet EXCEPT ![c] = DoReturn("nil", TransportError)]
          /\ pc' = [pc EXCEPT ![c] = "returned"]
          /\ UNCHANGED resp
       \/ /\ ctx[c] = "live"
          /\ \E a \in Answers(c) :
                resp' = [resp EXCEPT ![c] =
                           [HTTPResponse(a.status, a.body, a.bodyErr,
                                         req[c].Method, req[c].URL)
                              EXCEPT !.CloseErr = a.closeErr]]
          /\ pc' = [pc EXCEPT ![c] = "response"]
          /\ UNCHANGED doRet
    /\ UNCHANGED <<limiterVars, exited, op, ctx, req, wait, token, v, ret, opt, acc, crVars, nrVars,
                   configVars, clientsVars, now, began>>

\* The deferred function of Do (reago.go 310-314) closes the body and stores a
\* Close error in the local err when that is nil.  It runs after the return
\* statement has set the results of Do, which are unnamed: what Do returns is
\* what it was.
DeferredClose(r, returned) == returned

\* The rest of Do, from the response to the return.
DoFinish(c) ==
    /\ ~exited
    /\ pc[c] = "response"
    /\ LET d == DoAfterTransport(resp[c], v[c])
       IN  IF d.fatal
           THEN /\ exited' = TRUE
                /\ pc' = [pc EXCEPT ![c] = "fatal"]
                /\ UNCHANGED <<resp, v, doRet>>
           ELSE /\ resp' = [resp EXCEPT ![c] = d.resp]
                /\ v' = [v EXCEPT ![c] = d.v]
                /\ doRet' = [doRet EXCEPT ![c] = DeferredClose(d.resp, d.ret)]
                /\ pc' = [pc EXCEPT ![c] = "returned"]
                /\ UNCHANGED exited
    /\ UNCHANGED <<limiterVars, op, ctx, req, wait, token, ret, opt, acc, sent, crVars, nrVars,
                   configVars, clientsVars, now, began>>

\* The clock goes on.
Tick ==
    /\ ~exited
    /\ now < MaxTime
    /\ now' = now + 1
    /\ UNCHANGED <<limiterVars, configVars, exited, callVars, crVars, nrVars, clientsVars>>

\* A caller builds a request with NewRequest and keeps it.
ClientNewRequest(c, method) ==
    /\ ~exited
    /\ pc[c] = "idle"
    /\ op' = [op EXCEPT ![c] = [name |-> "Do", built |-> now]]
    /\ req' = [req EXCEPT ![c] = NewRequest(method, <<"v1">>, NoQuery, "nil")]
    /\ pc' = [pc EXCEPT ![c] = "built"]
    /\ UNCHANGED <<limiterVars, exited, ctx, wait, token, resp, v, doRet, ret, opt, acc, sent,
                   began, crVars, nrVars, configVars, clientsVars, now>>

\* The caller calls Do with the request it has built.
ClientDoRequest(c, dest) ==
    /\ ~exited
    /\ pc[c] = "built"
    /\ CallDo(c, req[c], dest)
    /\ UNCHANGED <<limiterVars, exited, op, ctx, wait, resp, ret, opt, acc, sent, crVars,
                   nrVars, configVars, clientsVars, now>>

\* A caller calls Do itself, with a request of any method that it has just
\* built, and any destination.
ClientDo(c, method, dest) ==
    /\ ~exited
    /\ pc[c] = "idle"
    /\ op' = [op EXCEPT ![c] = [name |-> "Do", built |-> now]]
    /\ CallDo(c, NewRequest(method, <<"v1">>, NoQuery, "nil"), dest)
    /\ UNCHANGED <<limiterVars, exited, ctx, wait, resp, ret, opt, acc, sent, crVars, nrVars,
                   configVars, clientsVars, now>>

ClientDoReturn(c) ==
    /\ ~exited
    /\ pc[c] = "returned"
    /\ op[c].name = "Do"
    /\ Return(c, "none", doRet[c].Response, doRet[c].err)
    /\ UNCHANGED <<limiterVars, exited, op, ctx, req, wait, token, resp, v, doRet, opt, acc,
                   sent, crVars, nrVars,
                   configVars, clientsVars, now, began>>

DoSteps(c) ==
    \/ LimiterWait(c)
    \/ LimiterWaitDone(c)
    \/ LimiterWaitCancelled(c)
    \/ Cancel(c)
    \/ Transport(c)
    \/ DoFinish(c)

Destinations == {NilDest, Writer(FALSE), Writer(TRUE), NewRoot("domainRoot")}

(***************************************************************************)
(* The resource accessors.  Each checks its arguments in the order of its  *)
(* declaration; the first empty one is reported by an ArgError and nothing *)
(* else is done.  "" stands for no invalid argument.                       *)
(***************************************************************************)
Nil == [nil |-> TRUE]

DomainsShowInvalid(name) == IF Len(name) < 1 THEN "name" ELSE ""

AliasInvalidMutantOrder(domain, alias) ==
    IF Len(alias) < 1 THEN "alias" ELSE IF Len(domain) < 1 THEN "domain" ELSE ""

AliasInvalid(domain, alias) ==
    IF Len(domain) < 1 THEN "domain" ELSE IF Len(alias) < 1 THEN "alias" ELSE ""

AliasesIndexInvalid(domain) == IF Len(domain) < 1 THEN "domain" ELSE ""

AliasesAddInvalid(domain, alias, emailAddresses) ==
    IF AliasInvalid(domain, alias) # "" THEN AliasInvalid(domain, alias)
    ELSE IF Len(emailAddresses) < 1 THEN "emailAddresses" ELSE ""

\* The start of an accessor that makes one request: o is the operation with
\* its arguments, invalid the outcome of the argument checks.
Accessor(c, o, invalid, r, dest) ==
    /\ ~exited
    /\ pc[c] = "idle"
    /\ op' = [op EXCEPT ![c] = o]
    /\ IF invalid # ""
       THEN /\ Return(c, Nil, "nil", ArgError(invalid))
            /\ UNCHANGED <<req, v, token, doRet, began>>
       ELSE /\ CallDo(c, r, dest)
            /\ UNCHANGED ret
    /\ UNCHANGED <<limiterVars, exited, ctx, wait, resp, opt, acc, sent, crVars, nrVars,
                   configVars, clientsVars, now>>

\* The end of an accessor: Do has returned.
AccessorReturn(c, name, value) ==
    /\ ~exited
    /\ pc[c] = "returned"
    /\ op[c].name = name
    /\ Return(c, value, doRet[c].Response, doRet[c].err)
    /\ UNCHANGED <<limiterVars, exited, op, ctx, req, wait, token, resp, v, doRet, opt, acc,
                   sent, crVars, nrVars,
                   configVars, clientsVars, now, began>>

DomainsShow(c, name) ==
    Accessor(c, [name |-> "Domains.Show", args |-> <<name>>],
             DomainsShowInvalid(name),
             NewRequest("GET", domainsBasePath \o <<name>>, NoQuery, "nil"),
             NewRoot("domainRoot"))

DomainsShowReturn(c) ==
    AccessorReturn(c, "Domains.Show",
                   IF doRet[c].err # NoError THEN Nil ELSE v[c].val.Domain)

RackspaceEmailAliasesShow(c, domain, alias) ==
    Accessor(c, [name |-> "RackspaceEmailAliases.Show", args |-> <<domain, alias>>],
             AliasInvalid(domain, alias),
             NewRequest("GET", rackspaceEmailAliasesBasePath(domain) \o <<alias>>,
                        NoQuery, "nil"),
             NewRoot("RackspaceEmailAliasShow"))

RackspaceEmailAliasesShowReturn(c) ==
    AccessorReturn(c, "RackspaceEmailAliases.Show",
                   IF doRet[c].err # NoError THEN Nil ELSE v[c].val)

RackspaceEmailAliasesAdd(c, domain, alias, emailAddresses) ==
    Accessor(c, [name |-> "RackspaceEmailAliases.Add",
                 args |-> <<domain, alias, emailAddresses>>],
             AliasesAddInvalid(domain, alias, emailAddresses),
             NewRequest("POST", rackspaceEmailAliasesBasePath(domain) \o <<alias>>,
                        NoQuery, [aliasEmails |-> emailAddresses]),
             NilDest)

RackspaceEmailAliasesAddReturn(c) == AccessorReturn(c, "RackspaceEmailAliases.Add", Nil)

RackspaceEmailAliasesDelete(c, domain, alias) ==
    Accessor(c, [name |-> "RackspaceEmailAliases.Delete", args |-> <<domain, alias>>],
             AliasInvalid(domain, alias),
             NewRequest("DELETE", rackspaceEmailAliasesBasePath(domain) \o <<alias>>,
                        NoQuery, "nil"),
             NilDest)

RackspaceEmailAliasesDeleteReturn(c) ==
    AccessorReturn(c, "RackspaceEmailAliases.Delete", Nil)

(***************************************************************************)
(* The listing loops, Domains.Index and RackspaceEmailAliases.Index.  The  *)
(* loop works on the caller's PageOptions object, or on a fresh one with   *)
(* the default page size when the caller passes nil.                       *)
(***************************************************************************)
PageOptions(offset, size) == [ptr |-> "caller", Offset |-> offset, Size |-> size]

\* A listing that gives its fresh PageOptions no size.
IndexOptionsMutantNoDefault(o) ==
    IF o.ptr = "nil" THEN [ptr |-> "local", Offset |-> 0, Size |-> 0] ELSE o

IndexOptions(o) ==
    IF o.ptr = "nil" THEN [ptr |-> "local", Offset |-> 0, Size |-> defaultPageSize] ELSE o

\* The test that ends the loop, and the offset of the next page.
PageStopMutantStrict(root) == root.Total < root.Size + root.Offset

PageStop(root) == root.Total <= root.Size + root.Offset

NextOffsetMutantStay(root) == root.Offset

NextOffsetMutantSkip(root) == root.Size + root.Offset + 1

NextOffset(root) == root.Size + root.Offset

\* The items returned when a page fetch fails.
ItemsOnErrorMutantKeep(items) == items

ItemsOnError(items) == <<>>

\* The Response returned after the loop: Domains.Index assigns every Do result
\* to the resp it returns; RackspaceEmailAliases.Index declares a new resp
\* inside the loop and returns the outer one, which is never assigned.
IndexResponse(name) == IF name = "Domains.Index" THEN "ptr" ELSE "nil"

IndexRoot(name) ==
    IF name = "Domains.Index" THEN "domainsRoot" ELSE "rackspaceEmailAliasesRoot"

IndexPath(o) ==
    IF o.name = "Domains.Index" THEN domainsBasePath
    ELSE rackspaceEmailAliasesBasePath(o.args[1])

\* A loop that fetches its pages with a request of the write class.
FetchPageMutantWrite(c, o, options) ==
    CallDo(c, NewRequest("PUT", IndexPath(o), addOptions(options), "nil"),
           NewRoot(IndexRoot(o.name)))

\* One pass through the head of the loop: build the request of the page and
\* call Do.
FetchPage(c, o, options) ==
    CallDo(c, NewRequest("GET", IndexPath(o), addOptions(options), "nil"),
           NewRoot(IndexRoot(o.name)))

\* The start of a listing: o is the operation, options the PageOptions passed.
Index(c, o, invalid, options) ==
    /\ ~exited
    /\ pc[c] = "idle"
    /\ op' = [op EXCEPT ![c] = o]
    /\ IF invalid # ""
       THEN /\ Return(c, <<>>, "nil", ArgError(invalid))
            /\ UNCHANGED <<req, v, token, doRet, began, opt>>
       ELSE /\ opt' = [opt EXCEPT ![c] = IndexOptions(options)]
            /\ FetchPage(c, o, IndexOptions(options))
            /\ UNCHANGED ret
    /\ UNCHANGED <<limiterVars, exited, ctx, wait, resp, acc, sent, crVars, nrVars,
                   configVars, clientsVars, now>>

\* A loop that puts the caller's offset back when it ends.
IndexPageMutantReset(c, name) ==
    /\ ~exited
    /\ pc[c] = "returned"
    /\ op[c].name = name
    /\ LET root == v[c].val
           items == acc[c] \o root.Items
       IN  IF doRet[c].err # NoError
           THEN /\ Return(c, <<>>, doRet[c].Response, doRet[c].err)
                /\ UNCHANGED <<req, v, token, doRet, began, opt, acc>>
           ELSE /\ acc' = [acc EXCEPT ![c] = items]
                /\ IF root.Total <= root.Size + root.Offset
                   THEN /\ Return(c, items, "ptr", NoError)
                        /\ opt' = [opt EXCEPT ![c].Offset = sent[c][1].req.Query.offset]
                        /\ UNCHANGED <<req, v, token, doRet, began>>
                   ELSE /\ Len(items) < MaxFetches
                        /\ opt' = [opt EXCEPT ![c].Offset = root.Size + root.Offset]
                        /\ CallDo(c, NewRequest("GET", domainsBasePath,
                                                [offset |-> opt'[c].Offset,
                                                 size |-> opt'[c].Size], "nil"),
                                  NewRoot("domainsRoot"))
                        /\ UNCHANGED ret
    /\ UNCHANGED <<limiterVars, exited, op, ctx, wait, resp, sent, crVars, nrVars,
                   configVars, clientsVars, now>>

\* The tail of the loop: Do has returned for a page.  The list is capped at
\* MaxFetches items: a loop that goes on without gathering anything is not cut.
IndexPage(c, name) ==
    /\ ~exited
    /\ pc[c] = "returned"
    /\ op[c].name = name
    /\ LET root == v[c].val
           items == acc[c] \o root.Items
       IN  IF doRet[c].err # NoError
           THEN /\ Return(c, ItemsOnError(acc[c]), doRet[c].Response, doRet[c].err)
                /\ UNCHANGED <<req, v, token, doRet, began, opt, acc>>
           ELSE /\ acc' = [acc EXCEPT ![c] = items]
                /\ IF PageStop(root)
                   THEN /\ Return(c, items, IndexResponse(name), NoError)
                        /\ UNCHANGED <<req, v, token, doRet, began, opt>>
                   ELSE /\ Len(items) < MaxFetches
                        /\ opt' = [opt EXCEPT ![c].Offset = NextOffset(root)]
                        /\ FetchPage(c, op[c], opt'[c])
                        /\ UNCHANGED ret
    /\ UNCHANGED <<limiterVars, exited, op, ctx, wait, resp, sent, crVars, nrVars,
                   configVars, clientsVars, now>>

DomainsIndex(c, options, service) ==
    Index(c, [name |-> "Domains.Index", args |-> <<>>, service |-> service], "", options)

DomainsIndexPage(c) == IndexPage(c, "Domains.Index")

RackspaceEmailAliasesIndex(c, options, domain, service) ==
    Index(c, [name |-> "RackspaceEmailAliases.Index", args |-> <<domain>>,
              service |-> service],
          AliasesIndexInvalid(domain), options)

RackspaceEmailAliasesIndexPage(c) == IndexPage(c, "RackspaceEmailAliases.Index")

(***************************************************************************)
(* A direct call of CheckResponse, on a response of any status and body.   *)
(***************************************************************************)
StatusCodes == {100, 199, 200, 204, 299, 300, 404, 500}

ErrorBodyValues(key) ==
    CASE key = "message" -> {JStr("not found"), JNum(5), JNull}
      [] key = "request_id" -> {JStr("abc"), JNum(5)}
      [] key = "response" ->
           {JNull, JNum(5), JObj([k \in {"statuscode"} |-> JNum(200)])}
      [] key = "other" -> {JStr("x")}

ErrorBodies ==
    {EmptyBody, TextBody, JNull, JNum(5), JStr("not found"), JArr(<<>>)}
    \cup {JObj(f) : f \in PartialFns({"message", "request_id", "response", "other"},
                                     ErrorBodyValues)}

InitCheckResponse ==
    /\ InitClient
    /\ InitCalls
    /\ crIn \in {HTTPResponse(st, b, e, "GET", domainsBasePath) :
                    st \in StatusCodes, b \in ErrorBodies, e \in BOOLEAN}
    /\ crOut = NoCheck
    /\ nrIn = NoRequest
    /\ nrOut = NoRequest

CallCheckResponse ==
    /\ ~crOut.called
    /\ crOut' = [called |-> TRUE, err |-> CheckResponse(crIn).err, r |-> CheckResponse(crIn).r]
    /\ UNCHANGED <<limiterVars, exited, callVars, crIn, nrVars, configVars, clientsVars, now>>

(***************************************************************************)
(* The specifications.  Spec: one caller uses the client through any       *)
(* operation.  SpecConcurrent: several callers call Do at the same time.   *)
(* SpecCheckResponse: CheckResponse alone.  SpecNewRequest: NewRequest     *)
(* alone.  SpecSigned: one caller, with a clock.                           *)
(***************************************************************************)
Names == {"", "foo.com"}
AliasNames == {"", "bar"}
AddressLists == {<<>>, <<"foo@bar.com">>}
\* The services a listing may face: one that answers anything, or an honest one
\* that holds n items.
Services ==
    {[honest |-> FALSE, n |-> 0]} \cup {[honest |-> TRUE, n |-> n] : n \in 0 .. MaxItems}
Options == {NilOptions} \cup {PageOptions(o, sz) : o \in 0 .. 1, sz \in 0 .. 2}

Next ==
    \/ \E c \in {1} :
        \/ \E m \in Methods, d \in Destinations : ClientDo(c, m, d)
        \/ ClientDoReturn(c)
        \/ \E name \in Names : DomainsShow(c, name)
        \/ DomainsShowReturn(c)
        \/ \E domain \in Names, alias \in AliasNames :
              \/ RackspaceEmailAliasesShow(c, domain, alias)
              \/ RackspaceEmailAliasesDelete(c, domain, alias)
              \/ \E a \in AddressLists : RackspaceEmailAliasesAdd(c, domain, alias, a)
        \/ RackspaceEmailAliasesShowReturn(c)
        \/ RackspaceEmailAliasesAddReturn(c)
        \/ RackspaceEmailAliasesDeleteReturn(c)
        \/ \E o \in Options, s \in Services :
              \/ DomainsIndex(c, o, s)
              \/ \E domain \in Names : RackspaceEmailAliasesIndex(c, o, domain, s)
        \/ DomainsIndexPage(c)
        \/ RackspaceEmailAliasesIndexPage(c)
        \/ DoSteps(c)
    \/ \E b \in {"get", "putPostDelete"} : Refill(b)

Spec == Init /\ [][Next]_vars

NextConcurrent ==
    \/ \E c \in Calls :
        \/ \E m \in {"GET", "DELETE"} : ClientDo(c, m, NilDest)
        \/ ClientDoReturn(c)
        \/ DoSteps(c)
    \/ \E b \in {"get", "putPostDelete"} : Refill(b)

SpecConcurrent == Init /\ [][NextConcurrent]_vars

\* SpecConcurrentFair: the same calls, where every goroutine that can take its
\* next step does so in the end (the Go scheduler) and time passes for both
\* buckets.  Cancelling a context, starting a call and taking a result are left
\* to the caller.
DoFairness ==
    /\ \A c \in Calls :
          /\ WF_vars(LimiterWait(c))
          /\ WF_vars(LimiterWaitDone(c))
          /\ WF_vars(Transport(c))
          /\ WF_vars(DoFinish(c))
    /\ \A b \in {"get", "putPostDelete"} : WF_vars(Refill(b))

SpecConcurrentFair == SpecConcurrent /\ DoFairness

SpecCheckResponse == InitCheckResponse /\ [][CallCheckResponse]_vars

\* SpecNewRequest: NewRequest alone, on a configured client, with any method,
\* with or without a body map.
SomeBody == [aliasEmails |-> <<"foo@bar.com">>]

InitNewRequest ==
    /\ InitConfigured
    /\ InitCalls
    /\ crIn = NoResponse
    /\ crOut = NoCheck
    /\ nrIn \in [method : Methods, url : {<<"v1">>, domainsBasePath}, hasBody : BOOLEAN]
    /\ nrOut = NoRequest

CallNewRequest ==
    /\ nrOut = NoRequest
    /\ nrOut' = IF nrIn.hasBody
                THEN NewRequest(nrIn.method, nrIn.url, NoQuery, SomeBody)
                ELSE NewRequest(nrIn.method, nrIn.url, NoQuery, "nil")
    /\ UNCHANGED <<limiterVars, exited, callVars, crVars, nrIn, configVars, clientsVars, now>>

SpecNewRequest == InitNewRequest /\ [][CallNewRequest]_vars

\* SpecSigned: one caller uses a configured client while the clock goes on.
InitSigned ==
    /\ InitConfigured
    /\ InitCalls
    /\ crIn = NoResponse
    /\ crOut = NoCheck
    /\ nrIn = NoRequest
    /\ nrOut = NoRequest

NextSigned ==
    \/ \E c \in {1} :
        \/ \E m \in {"GET", "POST"} : ClientNewRequest(c, m)
        \/ ClientDoRequest(c, NilDest)
        \/ ClientDoReturn(c)
        \/ \E name \in Names : DomainsShow(c, name)
        \/ DomainsShowReturn(c)
        \/ \E o \in {NilOptions, PageOptions(0, 1)}, n \in 0 .. MaxItems :
              DomainsIndex(c, o, [honest |-> TRUE, n |-> n])
        \/ DomainsIndexPage(c)
        \/ DoSteps(c)
    \/ \E b \in {"get", "putPostDelete"} : Refill(b)
    \/ Tick

SpecSigned == InitSigned /\ [][NextSigned]_vars

(***************************************************************************)
(* The construction of clients: NewClient, New and its options.  A         *)
(* rate.Limiter is an object on the heap, made by rate.NewLimiter; a       *)
(* Client holds the addresses of its two limiters.  A URL stands as the    *)
(* text that its String method gives.                                      *)
(***************************************************************************)
defaultBaseURL == "https://api.emailsrvr.com/"

URLError == [kind |-> "url"]

\* url.Parse: a text without scheme before its colon is an error; the scheme is
\* put in lower case.
urlParse(s) ==
    CASE s = ":" -> [err |-> URLError, url |-> ""]
      [] s = "HTTP://example.com/" -> [err |-> NoError, url |-> "http://example.com/"]
      [] OTHER -> [err |-> NoError, url |-> s]

\* A NewClient that hands out the same two limiters to every client.
NewClientMutantShared(h) ==
    [c |-> [built |-> TRUE, BaseURL |-> urlParse(defaultBaseURL).url,
            UserAgent |-> userAgent, userKey |-> "", secretKey |-> "",
            debugHTTP |-> FALSE, Domains |-> "ptr", RackspaceEmailAliases |-> "ptr",
            getLimiter |-> 1, putPostDeleteLimiter |-> 2],
     heap |-> IF h = <<>>
              THEN <<NewLimiter(defaultGetBurst), NewLimiter(defaultPutPostDeleteBurst)>>
              ELSE h]

\* NewClient on the heap h: the client with its defaults and two new limiters.
NewClient(h) ==
    [c |-> [built |-> TRUE, BaseURL |-> urlParse(defaultBaseURL).url,
            UserAgent |-> userAgent, userKey |-> "", secretKey |-> "",
            debugHTTP |-> FALSE, Domains |-> "ptr", RackspaceEmailAliases |-> "ptr",
            getLimiter |-> Len(h) + 1, putPostDeleteLimiter |-> Len(h) + 2],
     heap |-> h \o <<NewLimiter(defaultGetBurst), NewLimiter(defaultPutPostDeleteBurst)>>]

\* The options, as what New is given: the name of the option and its argument.
SetBaseURL(bu) == [name |-> "SetBaseURL", s |-> bu, n |-> 0]
SetUserAgent(ua) == [name |-> "SetUserAgent", s |-> ua, n |-> 0]
SetUserKey(uk) == [name |-> "SetUserKey", s |-> uk, n |-> 0]
SetSecretKey(sk) == [name |-> "SetSecretKey", s |-> sk, n |-> 0]
SetDebugHTTP == [name |-> "SetDebugHTTP", s |-> "", n |-> 0]
SetGetLimiter(burst) == [name |-> "SetGetLimiter", s |-> "", n |-> burst]
SetPostLimiter(burst) == [name |-> "SetPostLimiter", s |-> "", n |-> burst]

\* The call opt(c) of the option o on the client c, with the heap h.
ApplyOption(o, c, h) ==
    CASE o.name = "SetBaseURL" ->
           IF urlParse(o.s).err # NoError
           THEN [err |-> urlParse(o.s).err, c |-> c, heap |-> h]
           ELSE [err |-> NoError, c |-> [c EXCEPT !.BaseURL = urlParse(o.s).url], heap |-> h]
      [] o.name = "SetUserAgent" ->
           [err |-> NoError, c |-> [c EXCEPT !.UserAgent = o.s], heap |-> h]
      [] o.name = "SetUserKey" ->
           [err |-> NoError, c |-> [c EXCEPT !.userKey = o.s], heap |-> h]
      [] o.name = "SetSecretKey" ->
           [err |-> NoError, c |-> [c EXCEPT !.secretKey = o.s], heap |-> h]
      [] o.name = "SetDebugHTTP" ->
           [err |-> NoError, c |-> [c EXCEPT !.debugHTTP = TRUE], heap |-> h]
      [] o.name = "SetGetLimiter" ->
           [err |-> NoError, c |-> [c EXCEPT !.getLimiter = Len(h) + 1],
            heap |-> Append(h, NewLimiter(o.n))]
      [] o.name = "SetPostLimiter" ->
           [err |-> NoError, c |-> [c EXCEPT !.putPostDeleteLimiter = Len(h) + 1],
            heap |-> Append(h, NewLimiter(o.n))]

\* The order in which New calls its options.
OptionOrderMutantReverse(options, i) == options[Len(options) + 1 - i]

OptionOrder(options, i) == options[i]

\* The loop of New over its options: st[i] is the state after i passes; the
\* loop is left at the first option that returns an error.  applied lists the
\* options that were called.
NewResult(h, options) ==
    LET st[i \in 0 .. Len(options)] ==
            IF i = 0
            THEN [err |-> NoError, c |-> NewClient(h).c, heap |-> NewClient(h).heap,
                  applied |-> <<>>]
            ELSE IF st[i - 1].err # NoError THEN st[i - 1]
            ELSE LET r == ApplyOption(OptionOrder(options, i), st[i - 1].c, st[i - 1].heap)
                 IN  [err |-> r.err, c |-> r.c, heap |-> r.heap,
                      applied |-> Append(st[i - 1].applied, OptionOrder(options, i))]
    IN  st[Len(options)]

\* The k-th New call of the program.
New(k, options) ==
    /\ ~newRet[k].set
    /\ LET r == NewResult(heap, options)
       IN  /\ heap' = r.heap
           /\ clients' = [clients EXCEPT ![k] = IF r.err = NoError THEN r.c ELSE NoClient]
           /\ newRet' = [newRet EXCEPT ![k] =
                           [set |-> TRUE, options |-> options,
                            client |-> IF r.err = NoError THEN "ptr" ELSE "nil",
                            err |-> r.err, applied |-> r.applied]]
    /\ UNCHANGED <<issued, limiterVars, configVars, now, exited, callVars, crVars, nrVars>>

\* The limiter of client k that the method draws from.
LimiterOf(k, method) ==
    IF Bucket(method) = "get" THEN clients[k].getLimiter
    ELSE clients[k].putPostDeleteLimiter

\* A Do through client k, as far as the limiters go: it passes Wait on a token
\* of the client's limiter for the method; without a token it is held back.
DoThrough(k, method) ==
    /\ clients[k].built
    /\ issued[k] < MaxCalls
    /\ heap[LimiterOf(k, method)].tokens >= 1
    /\ heap' = [heap EXCEPT ![LimiterOf(k, method)].tokens = @ - 1]
    /\ issued' = [issued EXCEPT ![k] = @ + 1]
    /\ UNCHANGED <<clients, newRet, limiterVars, configVars, now, exited, callVars, crVars,
                   nrVars>>

\* Time passes: the limiter at the address a gains a token.
HeapRefill(a) ==
    /\ heap[a].tokens < heap[a].burst
    /\ heap' = [heap EXCEPT ![a].tokens = @ + 1]
    /\ UNCHANGED <<clients, newRet, issued, limiterVars, configVars, now, exited, callVars,
                   crVars, nrVars>>

\* Time passes for a limiter of client k.
ClientRefill(k, method) ==
    /\ clients[k].built
    /\ HeapRefill(LimiterOf(k, method))

BaseURLs == {"http://example.com/", "HTTP://example.com/", ":"}

AllOptions ==
    {SetBaseURL(bu) : bu \in BaseURLs}
    \cup {SetUserAgent("custom/2.0"), SetSecretKey("secret"), SetDebugHTTP,
          SetGetLimiter(2), SetPostLimiter(3)}
    \cup {SetUserKey(uk) : uk \in {"userkey", "other"}}

LimiterOptions == {SetGetLimiter(2), SetPostLimiter(3)}

OptionSeqs(opts) == UNION {[1 .. n -> opts] : n \in 0 .. MaxOptions}

\* SpecListing: one listing call against a service that reports the same total
\* on every page, honest or not.  The caller's goroutine goes on whenever it can
\* (weak fairness of its steps) and time passes for the read bucket.
SameTotalServices ==
    {[honest |-> h, n |-> n] : h \in BOOLEAN, n \in 1 .. MaxItems}
    \cup {[honest |-> TRUE, n |-> 0]}

ListingStep(c) ==
    \/ LimiterWait(c)
    \/ LimiterWaitDone(c)
    \/ LimiterWaitCancelled(c)
    \/ Transport(c)
    \/ DoFinish(c)
    \/ DomainsIndexPage(c)

NextListing ==
    \/ \E o \in {NilOptions, PageOptions(0, 1), PageOptions(1, 2)}, s \in SameTotalServices :
          DomainsIndex(1, o, s)
    \/ ListingStep(1)
    \/ Cancel(1)
    \/ Refill("get")

SpecListing ==
    /\ Init
    /\ [][NextListing]_vars
    /\ WF_vars(ListingStep(1))
    /\ WF_vars(Refill("get"))

\* SpecRelisting: a listing, and after it has returned a second listing that is
\* passed the same PageOptions object.  The second listing runs as call 2; the
\* object is opt[1] as the first listing left it when it returned its list.
\* The first listing faces any service, the second an honest one.
RelistingServices ==
    {[honest |-> TRUE, n |-> n] : n \in 0 .. MaxItems}
    \cup {[honest |-> FALSE, n |-> 0]}

IndexAgain ==
    /\ pc[1] = "done"
    /\ IsListing(1)
    /\ ret[1].err = NoError
    /\ opt[1].ptr = "caller"
    /\ Index(2, [op[1] EXCEPT !.service = [honest |-> TRUE, n |-> MaxItems]], "", opt[1])

NextRelisting ==
    \/ \E o \in {NilOptions, PageOptions(0, 1), PageOptions(1, 2)},
          s \in RelistingServices :
          DomainsIndex(1, o, s)
    \/ IndexAgain
    \/ \E c \in Calls :
        \/ LimiterWait(c)
        \/ LimiterWaitDone(c)
        \/ Transport(c)
        \/ DoFinish(c)
        \/ DomainsIndexPage(c)
    \/ Refill("get")

SpecRelisting == Init /\ [][NextRelisting]_vars

\* SpecNew: New alone, with any options.  SpecClients: two clients are built
\* and used side by side.
NextNew == \E options \in OptionSeqs(AllOptions) : New(1, options)

SpecNew == Init /\ [][NextNew]_vars

NextClients ==
    \/ \E k \in ClientIds :
        \/ \E options \in OptionSeqs(LimiterOptions) : New(k, options)
        \/ \E m \in {"GET", "POST"} : DoThrough(k, m)
        \/ \E m \in {"GET", "POST"} : ClientRefill(k, m)

SpecClients == Init /\ [][NextClients]_vars

(***************************************************************************)
(* The properties.                                                         *)
(***************************************************************************)
Success(status) == status >= 200 /\ status <= 299
ExpectedBucket(method) == IF method = "GET" THEN "get" ELSE "putPostDelete"
FullBucket(lim) == lim.tokens = lim.burst

\* C1: every request handed to the transport holds a token of the bucket of its
\* method, read for GET and write for any other method; no request is at the
\* transport without a token, and the caller's requests leave the other bucket
\* as it was.
C1_TokenFromOwnBucket ==
    \A c \in Calls :
        /\ \A i \in DOMAIN sent[c] :
              sent[c][i].token = ExpectedBucket(sent[c][i].req.Method)
        /\ pc[c] = "transport" => token[c] = ExpectedBucket(req[c].Method)
        /\ req[c].Method = "GET" => FullBucket(putPostDeleteLimiter)
        /\ req[c].Method \notin {"GET", "none"} => FullBucket(getLimiter)

C1_Witness ==
    /\ Len(sent[1]) = 1
    /\ sent[1][1].req.Method = "PATCH"
    /\ sent[1][1].token = "putPostDelete"
    /\ putPostDeleteLimiter.tokens = 0

\* C2: when the context is done while Do waits for a token that is not yet due,
\* the wait can only end with Do returning the context's error and a nil
\* response, and the request is not handed to the transport.
C2_CancelledWaitReturns ==
    [][\A c \in Calls :
          (pc[c] = "waiting" /\ ctx[c] = "done" /\ wait[c] > 0 /\ pc'[c] # "waiting")
          => /\ pc'[c] = "returned"
             /\ doRet'[c] = DoReturn("nil", ContextError)
             /\ sent'[c] = sent[c]
             /\ sent[c] = <<>>]_vars

C2_Witness ==
    \E c \in Calls :
        /\ pc[c] = "returned"
        /\ ctx[c] = "done"
        /\ wait[c] > 0
        /\ doRet[c] = DoReturn("nil", ContextError)
        /\ sent[c] = <<>>

\* C3: a listing that starts at offset 0 with page size s >= 1 against an honest
\* service holding n items returns the items 1 .. n in order, each once, after
\* max(1, ceil(n / s)) page fetches; with such a service only the context or
\* the transport can make it fail.
FirstQuery(c) == sent[c][1].req.Query
Ceil(n, s) == (n + s - 1) \div s

C3_HonestListing ==
    \A c \in Calls :
        (pc[c] = "done" /\ IsListing(c) /\ op[c].service.honest /\ sent[c] # <<>>)
        => /\ ret[c].err \in {NoError, ContextError, TransportError}
           /\ (ret[c].err = NoError /\ FirstQuery(c).offset = 0 /\ FirstQuery(c).size >= 1)
              => /\ ret[c].value = [i \in 1 .. op[c].service.n |-> i]
                 /\ Len(sent[c]) =
                      IF op[c].service.n = 0 THEN 1
                      ELSE Ceil(op[c].service.n, FirstQuery(c).size)

C3_Witness ==
    /\ pc[1] = "done"
    /\ op[1].name = "RackspaceEmailAliases.Index"
    /\ op[1].service = [honest |-> TRUE, n |-> 3]
    /\ ret[1].err = NoError
    /\ Len(sent[1]) = 3
    /\ FirstQuery(1) = [offset |-> 0, size |-> 1]
    /\ ret[1].value = <<1, 2, 3>>

\* C4: after a page that was fetched without error, the loop ends at once when
\* the page reports total <= size + offset (a page that reports none of them
\* reports zeros) and otherwise asks for the next page at offset size + offset;
\* a listing that has returned fetches nothing more.
C4_StopCondition ==
    [][\A c \in Calls :
          /\ (IsListing(c) /\ pc[c] = "returned" /\ doRet[c].err = NoError
              /\ pc'[c] # "returned")
             => IF v[c].val.Total <= v[c].val.Size + v[c].val.Offset
                THEN pc'[c] = "done" /\ ret'[c].err = NoError /\ sent'[c] = sent[c]
                ELSE /\ pc'[c] = "wait"
                     /\ req'[c].Method = "GET"
                     /\ req'[c].Query.offset = v[c].val.Size + v[c].val.Offset
                     /\ req'[c].Query.size = req[c].Query.size
          /\ pc[c] = "done" => (pc'[c] = "done" /\ sent'[c] = sent[c])]_vars

C4_Witness ==
    /\ pc[1] = "done"
    /\ op[1].name = "Domains.Index"
    /\ ~op[1].service.honest
    /\ ret[1].err = NoError
    /\ Len(sent[1]) = 2
    /\ sent[1][1].req.Query.offset = 0
    /\ sent[1][2].req.Query.offset = 2
    /\ v[1].val = [Offset |-> 0, Size |-> 0, Total |-> 0, Items |-> <<2>>]

\* C5, as claimed: a listing whose page fetch fails returns the items
\* accumulated from the pages before it, together with the error.
FetchFailed(c) ==
    pc[c] = "done" /\ IsListing(c) /\ ret[c].err \notin {NoError, ArgError("domain")}

C5_Original ==
    \A c \in Calls : FetchFailed(c) => ret[c].value = acc[c]

\* C5, amended: a listing whose page fetch fails ends at once and returns no
\* items, the accumulated ones are dropped, together with the error and the
\* Response that Do returned for that fetch.
C5_FailedFetchDropsItems ==
    \A c \in Calls :
        FetchFailed(c)
        => /\ ret[c].value = <<>>
           /\ ret[c].err = doRet[c].err
           /\ ret[c].Response = doRet[c].Response

C5_Witness ==
    /\ FetchFailed(1)
    /\ Len(sent[1]) = 2
    /\ acc[1] = <<1>>
    /\ ret[1].value = <<>>
    /\ ret[1].err.kind = "ErrorResponse"

\* C6, as claimed: CheckResponse returns no error exactly for the status codes
\* 200 .. 299, and for every other status an ErrorResponse that carries the
\* method, the URL and the status code of the response it was given, whatever
\* the body holds.
CarriesRequest(out, in) ==
    /\ out.err.kind = "ErrorResponse"
    /\ out.err.Response = "ptr"
    /\ out.r.StatusCode = in.StatusCode
    /\ out.r.Request = in.Request

C6_Original ==
    crOut.called
    => /\ crOut.err = NoError <=> Success(crIn.StatusCode)
       /\ ~Success(crIn.StatusCode) => CarriesRequest(crOut, crIn)

\* C7, as claimed: for a status outside 200 .. 299 CheckResponse yields a fully
\* formed ErrorResponse; a body that is an envelope with message and request_id
\* gives these as Message and RequestID; a body that is empty or cannot be read
\* gives an empty Message and an empty RequestID.
IsString(data, key) == Has(data, key) /\ data.f[key].t = "str"
IsEnvelope(data) ==
    data.t = "obj" /\ IsString(data, "message") /\ IsString(data, "request_id")

C7_Original ==
    (crOut.called /\ ~Success(crIn.StatusCode))
    => /\ crOut.err.kind = "ErrorResponse"
       /\ crOut.err.Response = "ptr"
       /\ (~crIn.BodyErr /\ IsEnvelope(crIn.Body))
          => /\ crOut.err.Message = Lit(crIn.Body.f["message"].s)
             /\ crOut.err.RequestID = Lit(crIn.Body.f["request_id"].s)
       /\ (crIn.BodyErr \/ crIn.Body.t = "empty")
          => /\ crOut.err.Message = Lit("")
             /\ crOut.err.RequestID = Lit("")

\* C8, as claimed: for a status outside 200 .. 299, a body that is not empty
\* and is anything but a JSON object with a string message or a string
\* request_id makes Message the raw body.
Readable(r) == ~Success(r.StatusCode) /\ ~r.BodyErr /\ r.Body.t # "empty"
OtherShape(data) ==
    \/ data.t \in {"text", "null", "num", "str", "arr"}
    \/ data.t = "obj" /\ ~IsString(data, "message") /\ ~IsString(data, "request_id")

C9_ErrorLeavesDestination ==
    [][\A c \in Calls :
          (pc[c] = "response" /\ pc'[c] = "returned" /\ ~Success(resp[c].StatusCode))
          => /\ doRet'[c].Response = "ptr"
             /\ doRet'[c].err.kind = "ErrorResponse"
             /\ v'[c] = v[c]]_vars

C9_Witness ==
    /\ pc[1] = "returned"
    /\ op[1].name = "Domains.Show"
    /\ resp[1].StatusCode = 404
    /\ doRet[1].Response = "ptr"
    /\ doRet[1].err.kind = "ErrorResponse"
    /\ doRet[1].err.Message = Lit("not found")
    /\ v[1] = NewRoot("domainRoot")

\* C10: an accessor called with an empty required argument returns an ArgError
\* that names the first empty argument in the order of declaration, and builds
\* no request, takes no token and makes no transport call.
Required(name) ==
    CASE name = "Domains.Show" -> <<"name">>
      [] name = "RackspaceEmailAliases.Index" -> <<"domain">>
      [] name \in {"RackspaceEmailAliases.Show", "RackspaceEmailAliases.Delete"} ->
           <<"domain", "alias">>
      [] name = "RackspaceEmailAliases.Add" -> <<"domain", "alias", "emailAddresses">>
      [] OTHER -> <<>>

EmptyArgs(o) == {i \in DOMAIN Required(o.name) : Len(o.args[i]) = 0}
FirstEmpty(o) ==
    Required(o.name)[CHOOSE i \in EmptyArgs(o) : \A j \in EmptyArgs(o) : i <= j]

C10_EmptyArgument ==
    \A c \in Calls :
        (op[c].name \notin {"none", "Do"} /\ EmptyArgs(op[c]) # {})
        => /\ pc[c] = "done"
           /\ ret[c].err = ArgError(FirstEmpty(op[c]))
           /\ ret[c].Response = "nil"
           /\ req[c] = NoRequest
           /\ token[c] = "none"
           /\ sent[c] = <<>>
           /\ FullBucket(getLimiter)
           /\ FullBucket(putPostDeleteLimiter)

C10_Witness ==
    /\ pc[1] = "done"
    /\ op[1].name = "RackspaceEmailAliases.Add"
    /\ op[1].args = <<"foo.com", "", <<>>>>
    /\ ret[1].err = ArgError("alias")
    /\ sent[1] = <<>>

(***************************************************************************)
(* The response body on the ways out of Do.                                *)
(***************************************************************************)
\* A Do that has ended after the transport returned a response to it.
EndedWithResponse(c) ==
    \/ pc[c] = "fatal"
    \/ pc[c] \in {"returned", "done"} /\ doRet[c].set
       /\ doRet[c].err \notin {ContextError, TransportError}

\* C11: once the transport has returned a response to Do, the body of that
\* response is closed on every way by which Do ends: the return of an API error,
\* a failed decode, a failed copy into the sink, success with or without a
\* destination, and a failed dump of the response.
C11_Original ==
    \A c \in Calls : EndedWithResponse(c) => resp[c].Closed

(***************************************************************************)
(* The dispatch on the destination v.                                      *)
(***************************************************************************)
\* C12: for a 2xx response Do does exactly one of three things, chosen by v
\* alone: v nil, nothing is read or decoded and Do succeeds; v an io.Writer, the
\* whole body is copied to it as it is and is never decoded as JSON; any other
\* v, the body is decoded as JSON into v.  At most one of them reads the body.
C12_ExclusiveDispatch ==
    [][\A c \in Calls :
          (pc[c] = "response" /\ pc'[c] = "returned" /\ Success(resp[c].StatusCode))
          => CASE v[c].type = "nil" ->
                    /\ v'[c] = v[c]
                    /\ ~resp'[c].BodyRead
                    /\ doRet'[c] = DoReturn("ptr", NoError)
               [] v[c].type = "writer" ->
                    /\ resp'[c].BodyRead
                    /\ IF v[c].fails
                       THEN v'[c] = v[c] /\ doRet'[c] = DoReturn("nil", CopyError)
                       ELSE /\ v'[c] = [v[c] EXCEPT !.written = resp[c].Body]
                            /\ doRet'[c] = DoReturn("ptr", NoError)
               [] OTHER ->
                    /\ resp'[c].BodyRead
                    /\ v'[c] = Decode(resp[c].Body, v[c]).v
                    /\ doRet'[c] = IF Decode(resp[c].Body, v[c]).err
                                   THEN DoReturn("nil", DecodeError)
                                   ELSE DoReturn("ptr", NoError)]_vars

\* A JSON body has been copied to a sink as it is.
C12_Witness ==
    /\ pc[1] = "returned"
    /\ op[1].name = "Do"
    /\ v[1].type = "writer"
    /\ resp[1].StatusCode = 200
    /\ v[1].written = resp[1].Body
    /\ v[1].written.t = "obj"
    /\ doRet[1] = DoReturn("ptr", NoError)

(***************************************************************************)
(* One transport call and one token for each Do.                           *)
(***************************************************************************)
\* The steps of call c, as far as tokens and transport calls go.
OneShotStep(c) ==
    \* the transport is called from one place, by a Do that holds a token, once
    /\ sent'[c] # sent[c]
       => /\ pc[c] = "transport" /\ pc'[c] \in {"response", "returned"}
          /\ token[c] # "none"
          /\ Len(sent'[c]) = Len(sent[c]) + 1
    \* a Do that holds a token calls the transport
    /\ (pc[c] = "transport" /\ pc'[c] # "transport") => Len(sent'[c]) = Len(sent[c]) + 1
    /\ (pc'[c] = "transport" /\ pc[c] # "transport") => pc[c] \in {"wait", "waiting"}
    \* after the transport call Do only returns
    /\ pc[c] = "response" => pc'[c] \in {"response", "returned", "fatal"}
    \* a Do begins at the start of an operation or after a page that was fetched
    /\ (pc'[c] = "wait" /\ pc[c] # "wait")
       => \/ pc[c] \in {"idle", "built"}
          \/ pc[c] = "returned" /\ IsListing(c) /\ doRet[c].err = NoError
    \* a Do that failed is followed by the return of the operation
    /\ (pc[c] = "returned" /\ doRet[c].err # NoError) => pc'[c] \in {"returned", "done"}

\* A bucket loses a token only to a Do that enters Wait, one at a time.
OneTokenStep(b) ==
    Limiter(b)'.tokens < Limiter(b).tokens
    => /\ Limiter(b)'.tokens = Limiter(b).tokens - 1
       /\ \E c \in Calls : /\ pc[c] = "wait" /\ pc'[c] \in {"waiting", "transport"}
                           /\ Bucket(req[c].Method) = b

\* C13: a Do call calls the transport at most once and takes at most one token,
\* and exactly one of each when it gets its token; no outcome (transport error,
\* API error, decode error) leads to a second transport call or token, and a
\* listing does not fetch again a page whose fetch failed.
C13_OneShot ==
    /\ [][/\ \A c \in Calls : OneShotStep(c)
          /\ \A b \in {"get", "putPostDelete"} : OneTokenStep(b)]_vars
    /\ [](\A c \in Calls :
            op[c].name \notin {"none", "Domains.Index", "RackspaceEmailAliases.Index"}
            => /\ Len(sent[c]) <= 1
               /\ pc[c] \in {"response", "returned", "done", "fatal"}
                  => Len(sent[c]) = (IF token[c] = "none" THEN 0 ELSE 1))

\* A listing whose second page failed has ended with two transport calls.
C13_Witness ==
    /\ pc[1] = "done"
    /\ IsListing(1)
    /\ ret[1].err \in {TransportError, DecodeError}
    /\ Len(sent[1]) = 2

(***************************************************************************)
(* The errors of Do.                                                       *)
(***************************************************************************)
\* C14: every error that arises in Do (a failed dump of the request, a failed
\* limiter Wait, a failed transport call, a failed dump of the response, an API
\* error, a failed copy or decode, a failed Close of the body) is returned to
\* the caller; none is swallowed.
C14_Original ==
    \A c \in Calls :
        \* the failed dump of the response is returned
        /\ pc[c] # "fatal"
        \* the failed Close is returned
        /\ (pc[c] \in {"returned", "done"} /\ doRet[c].set /\ resp[c] # NoResponse
            /\ resp[c].Closed /\ resp[c].CloseErr)
           => doRet[c].err # NoError

\* The step by which the Do of call c returns.
DoReturns(c) == pc[c] \in {"wait", "waiting", "transport", "response"} /\ pc'[c] = "returned"

\* C15: a 2xx response whose body cannot be decoded into the destination makes
\* Do return an error that is no ErrorResponse; and every error Do returns is of
\* exactly one class: cancellation or transport error, API error (an
\* ErrorResponse, for a response the service sent with a status outside 2xx, and
\* for no other), decode or copy error (for a 2xx response only).
C15_ErrorClasses ==
    [][\A c \in Calls :
          DoReturns(c)
          => LET err == doRet'[c].err
             IN  IF pc[c] = "response"
                 THEN /\ err.kind \in {"nil", "ErrorResponse", "decode", "copy"}
                      /\ err.kind = "ErrorResponse" <=> ~Success(resp[c].StatusCode)
                      /\ err.kind \in {"decode", "copy"} => Success(resp[c].StatusCode)
                      /\ (Success(resp[c].StatusCode)
                          /\ v[c].type \notin {"nil", "writer"}
                          /\ Decode(resp[c].Body, v[c]).err)
                         => err.kind = "decode" /\ doRet'[c].Response = "nil"
                      /\ err.kind = "copy" <=> (Success(resp[c].StatusCode)
                                                /\ v[c].type = "writer" /\ v[c].fails)
                 ELSE err.kind \in {"context", "transport"}]_vars

\* A 2xx response with a body that is not JSON has been reported by a decode
\* error.
C15_Witness ==
    /\ pc[1] = "returned"
    /\ op[1].name = "Domains.Show"
    /\ resp[1].StatusCode = 200
    /\ resp[1].Body = TextBody
    /\ doRet[1].err.kind = "decode"

(***************************************************************************)
(* The buckets under concurrent callers.                                   *)
(***************************************************************************)
\* The requests that were handed to the transport with a token of bucket b.
SentThrough(b) ==
    LET n[k \in 0 .. MaxCalls] ==
            IF k = 0 THEN 0
            ELSE n[k - 1] + Cardinality({i \in DOMAIN sent[k] : sent[k][i].token = b})
    IN  n[MaxCalls]

\* The calls that hold a token of bucket b and have not yet called the transport.
Holding(b) == {c \in Calls : pc[c] = "transport" /\ token[c] = b}

\* C16: when several callers call Do at the same time, each token lets at most
\* one request pass: under any interleaving the requests handed to the
\* transport through a bucket are never more than the burst of the bucket plus
\* the tokens refilled since the client was built.
C16_TokenPerRequest ==
    \A b \in {"get", "putPostDelete"} :
        SentThrough(b) + Cardinality(Holding(b)) <= Limiter(b).burst + refilled[b]

\* Two callers have sent a GET each, the second on a refilled token.
C16_Witness ==
    /\ SentThrough("get") = 2
    /\ refilled["get"] = 1
    /\ \A c \in {1, 2} : Len(sent[c]) = 1 /\ sent[c][1].token = "get"

\* The bucket that the method of a request does not draw from.
OtherLimiter(method) == IF method = "GET" THEN putPostDeleteLimiter ELSE getLimiter
OwnLimiter(method) == IF method = "GET" THEN getLimiter ELSE putPostDeleteLimiter

\* C17: the two buckets are independent.  A GET request leaves the tokens of the
\* write bucket as they are and is not delayed or refused because the write
\* bucket is empty; a request of any other method leaves the read bucket as it
\* is and is not delayed or refused because the read bucket is empty.
C17_IndependentBuckets ==
    /\ [][\A c \in Calls :
             (pc'[c] # pc[c] /\ req[c] # NoRequest)
             => /\ OtherLimiter(req[c].Method)' = OtherLimiter(req[c].Method)
                /\ (pc[c] = "wait" /\ ctx[c] = "live"
                    /\ OwnLimiter(req[c].Method).tokens >= 1)
                   => pc'[c] = "transport"
                /\ pc'[c] = "waiting"
                   => wait'[c] = 1 - OwnLimiter(req[c].Method).tokens]_vars
    /\ [](\A c \in Calls :
            (pc[c] = "waiting" /\ wait[c] > 0)
            => wait[c] <= 0 - OwnLimiter(req[c].Method).tokens)

\* A GET has passed at once while the write bucket was empty.
C17_Witness ==
    /\ putPostDeleteLimiter.tokens = 0
    /\ refilled["putPostDelete"] = 0
    /\ refilled["get"] = 0
    /\ Len(sent[1]) = 1 /\ sent[1][1].token = "putPostDelete"
    /\ pc[2] = "transport" /\ req[2].Method = "GET" /\ token[2] = "get"

(***************************************************************************)
(* The signature of the requests.                                          *)
(***************************************************************************)
\* The entries of the log of the transport for call c.
SentBy(c) == {sent[c][i] : i \in DOMAIN sent[c]}

SignedBy(e) ==
    /\ Len(e.req.XApiSignature) = 1
    /\ e.req.XApiSignature[1].identity = userKey

\* C18: every request that reaches the transport carries exactly one
\* X-Api-Signature header, whose identity is the user key of the client and
\* whose timestamp was taken within the Do call that sends the request: not
\* before that Do began, and not after the request was sent, also when Do waits
\* for a token.
C18_Original ==
    \A c \in Calls : \A e \in SentBy(c) :
        /\ SignedBy(e)
        /\ e.began <= e.req.XApiSignature[1].ts
        /\ e.req.XApiSignature[1].ts <= e.at

\* C18, amended: every request that reaches the transport carries exactly one
\* X-Api-Signature header, made of the user key, the user agent of the request,
\* the secret key and a timestamp of its own; the timestamp is the time at
\* which NewRequest built the request, which is not after the Do that sends it
\* began, and is not taken again while Do waits for a token.  A listing signs
\* the request of each page after the page before it was sent.
C18_SignedAtBuild ==
    \A c \in Calls :
        /\ \A e \in SentBy(c) :
              LET sig == e.req.XApiSignature[1]
              IN  /\ SignedBy(e)
                  /\ sig.hash = <<userKey, e.req.UserAgent, sig.ts, secretKey>>
                  /\ sig.ts <= e.began
                  /\ e.began <= e.at
                  /\ op[c].name = "Do" => sig.ts = op[c].built
        /\ \A i, j \in DOMAIN sent[c] :
              i < j => sent[c][i].at <= sent[c][j].req.XApiSignature[1].ts

\* The second page of a listing was signed when it was built and sent later, on a
\* token it had to wait for.
C18_Witness ==
    /\ Len(sent[1]) = 2
    /\ refilled["get"] = 1
    /\ sent[1][1].req.XApiSignature[1].ts = 0
    /\ sent[1][2].req.XApiSignature[1].ts = 1
    /\ sent[1][2].began = 1
    /\ sent[1][2].at = 2
    /\ sent[1][2].req.XApiSignature[1].identity = "userkey"

(***************************************************************************)
(* The headers set by NewRequest.                                          *)
(***************************************************************************)
FormType == "application/x-www-form-urlencoded"

\* C19: NewRequest sets Content-Type to application/x-www-form-urlencoded
\* exactly when the method is POST and a body map is given, and to
\* application/json in every other case; Accept is application/json and
\* User-Agent is the value the client is configured with.
C19_Original ==
    nrOut # NoRequest
    => /\ nrOut.ContentType =
              (IF nrIn.method = "POST" /\ nrIn.hasBody THEN FormType ELSE "application/json")
       /\ nrOut.Accept = "application/json"
       /\ nrOut.UserAgent = UserAgent

\* C19, amended: the Content-Type is chosen by the method alone, the form type
\* for POST with or without a body, application/json for any other method with
\* or without a body.
C19_ContentTypeByMethod ==
    nrOut # NoRequest
    => /\ nrOut.ContentType =
              (IF nrIn.method = "POST" THEN FormType ELSE "application/json")
       /\ nrOut.Accept = "application/json"
       /\ nrOut.UserAgent = UserAgent
       /\ nrOut.Method = nrIn.method

\* A POST without body has got the form type, on a client with its own user
\* agent.
C19_Witness ==
    /\ nrOut # NoRequest
    /\ nrIn.method = "POST"
    /\ ~nrIn.hasBody
    /\ nrOut.ContentType = FormType
    /\ nrOut.UserAgent = "custom/2.0"

(***************************************************************************)
(* The page size a listing asks for.                                       *)
(***************************************************************************)
\* A listing that has sent its first request.
ListingBegun(c) == IsListing(c) /\ sent[c] # <<>>

\* C20: a listing called with no PageOptions, or with PageOptions whose size is
\* zero, asks for the default page size, 50, in the request of its first page.
C20_Original ==
    \A c \in Calls :
        (ListingBegun(c) /\ (opt[c].ptr = "local" \/ opt[c].Size = 0))
        => sent[c][1].req.Query.size = defaultPageSize

\* C20, amended: a listing called with no PageOptions asks for 50 items from
\* offset 0; a listing called with PageOptions asks for the size they hold, and
\* sends no size parameter when that size is zero.
C20_DefaultOnlyForNil ==
    \A c \in Calls :
        ListingBegun(c)
        => /\ opt[c].ptr = "local"
              => sent[c][1].req.Query = [offset |-> 0, size |-> defaultPageSize]
           /\ opt[c].ptr = "caller"
              => \A i \in DOMAIN sent[c] : sent[c][i].req.Query.size = opt[c].Size

\* A listing called with PageOptions of size zero has sent no size parameter; an
\* honest service has answered with the page of its own default size.
C20_Witness ==
    /\ pc[1] = "done"
    /\ IsListing(1)
    /\ opt[1].ptr = "caller"
    /\ opt[1].Size = 0
    /\ ret[1].err = NoError
    /\ Len(sent[1]) = 1
    /\ sent[1][1].req.Query.size = 0
    /\ op[1].service.honest
    /\ Len(ret[1].value) = MaxItems

(***************************************************************************)
(* The listing loop, page after page.                                      *)
(***************************************************************************)
\* The read tokens that have left the bucket and not come back by a refill.
ReadTokensOut == getLimiter.burst + refilled["get"] - getLimiter.tokens

\* The step by which a listing goes on to its next page.
NextPageStep(c) == IsListing(c) /\ pc[c] = "returned" /\ pc'[c] = "wait"

\* C21: within one listing call the pages are fetched one after the other: at
\* most one page request is under way, the request of page k+1 is built and
\* sent only after the response of page k was decoded and merged, and every
\* page fetch takes one token of the read bucket on its own (k pages take k
\* read tokens and no write token).
C21_SequentialPages ==
    /\ [][\A c \in Calls :
             /\ NextPageStep(c)
                => /\ doRet[c] = DoReturn("ptr", NoError)
                   /\ resp[c].BodyRead /\ resp[c].Closed
                   /\ v[c] = Decode(resp[c].Body, NewRoot(v[c].type)).v
                   /\ acc'[c] = acc[c] \o v[c].val.Items
                   /\ req'[c].Query.offset = v[c].val.Size + v[c].val.Offset
                   /\ token'[c] = "none"
                   /\ sent'[c] = sent[c]
             /\ (IsListing(c) /\ sent'[c] # sent[c])
                => /\ pc[c] = "transport" /\ token[c] = "get"
                   /\ sent'[c] = Append(sent[c], [req |-> req[c], token |-> "get",
                                                  began |-> began[c], at |-> now])]_vars
    /\ [](\A c \in {1} :
            IsListing(c)
            => /\ \A i \in DOMAIN sent[c] : sent[c][i].token = "get"
               /\ FullBucket(putPostDeleteLimiter) /\ refilled["putPostDelete"] = 0
               /\ ReadTokensOut >= Len(sent[c])
               /\ ctx[c] = "live"
                  => ReadTokensOut = Len(sent[c])
                       + (IF pc[c] \in {"waiting", "transport"} THEN 1 ELSE 0))

\* A listing has fetched three pages on three read tokens.
C21_Witness ==
    /\ pc[1] = "done"
    /\ IsListing(1)
    /\ ctx[1] = "live"
    /\ ret[1].err = NoError
    /\ Len(sent[1]) = 3
    /\ ReadTokensOut = 3
    /\ Len(ret[1].value) = 3

(***************************************************************************)
(* The buckets of separate clients.                                        *)
(***************************************************************************)
Built == {k \in ClientIds : clients[k].built}
LimitersOf(k) == {clients[k].getLimiter, clients[k].putPostDeleteLimiter}

\* The argument of the last option of the given name, or the default.
LastArg(options, name, default) ==
    LET at == {i \in DOMAIN options : options[i].name = name}
    IN  IF at = {} THEN default
        ELSE options[CHOOSE i \in at : \A j \in at : j <= i].n

\* C22: every Client has its own pair of buckets.  The requests that go through
\* one client take no token of, and are not held back by, the buckets of a
\* client built by another NewClient or New call; a limiter option given to New
\* replaces the bucket of its class of that client and nothing else
\* (SetGetLimiter the read bucket, SetPostLimiter the write bucket).
C22_OwnBuckets ==
    /\ [](\A k \in Built :
            /\ clients[k].getLimiter # clients[k].putPostDeleteLimiter
            /\ \A j \in Built \ {k} : LimitersOf(k) \cap LimitersOf(j) = {}
            \* the tokens missing in the buckets of k went to requests of k
            /\ \A a \in LimitersOf(k) : heap[a].burst - heap[a].tokens <= issued[k]
            /\ heap[clients[k].getLimiter].burst
                 = LastArg(newRet[k].options, "SetGetLimiter", defaultGetBurst)
            /\ heap[clients[k].putPostDeleteLimiter].burst
                 = LastArg(newRet[k].options, "SetPostLimiter", defaultPutPostDeleteBurst))
    /\ [][\A k \in ClientIds :
             /\ issued'[k] # issued[k]
                => \A j \in Built \ {k} : \A a \in LimitersOf(j) : heap'[a] = heap[a]
             /\ newRet'[k] # newRet[k]
                => /\ \A j \in ClientIds \ {k} : clients'[j] = clients[j]
                   /\ \A a \in DOMAIN heap : heap'[a] = heap[a]]_vars

\* Client 1, built with a read bucket of its own size, has used that bucket up;
\* client 2 has passed a GET at once on its own read bucket.
C22_Witness ==
    /\ Built = ClientIds
    /\ newRet[1].options = <<SetGetLimiter(2)>>
    /\ newRet[2].options = <<>>
    /\ issued = <<2, 1>>
    /\ heap[clients[1].getLimiter] = [burst |-> 2, tokens |-> 0]
    /\ heap[clients[1].putPostDeleteLimiter] = NewLimiter(defaultPutPostDeleteBurst)
    /\ heap[clients[2].getLimiter] = [burst |-> defaultGetBurst, tokens |-> 0]

(***************************************************************************)
(* New and its options.                                                    *)
(***************************************************************************)
\* The text argument of the last option of the given name, or the default.
LastStr(options, name, default) ==
    LET at == {i \in DOMAIN options : options[i].name = name}
    IN  IF at = {} THEN default
        ELSE options[CHOOSE i \in at : \A j \in at : j <= i].s

\* The options of a New call that return an error.
Failing(options) ==
    {i \in DOMAIN options :
        options[i].name = "SetBaseURL" /\ urlParse(options[i].s).err # NoError}

\* C23: New applies its options in the order given, on top of the defaults.
\* When every option succeeds, each field of the client holds the value of the
\* last option that set it, and a field that no option set holds its default
\* (base URL, user agent, debug off, both services there).  When an option
\* fails, New returns a nil client and the error of that option, and calls no
\* later option.
C23_OptionsInOrder ==
    newRet[1].set
    => LET options == newRet[1].options
           c == clients[1]
       IN  IF Failing(options) = {}
           THEN /\ newRet[1].client = "ptr" /\ newRet[1].err = NoError
                /\ newRet[1].applied = options
                /\ c.built
                /\ c.BaseURL = urlParse(LastStr(options, "SetBaseURL", defaultBaseURL)).url
                /\ c.UserAgent = LastStr(options, "SetUserAgent", userAgent)
                /\ c.userKey = LastStr(options, "SetUserKey", "")
                /\ c.secretKey = LastStr(options, "SetSecretKey", "")
                /\ c.debugHTTP = (\E i \in DOMAIN options : options[i].name = "SetDebugHTTP")
                /\ c.Domains = "ptr" /\ c.RackspaceEmailAliases = "ptr"
                /\ heap[c.getLimiter]
                     = NewLimiter(LastArg(options, "SetGetLimiter", defaultGetBurst))
                /\ heap[c.putPostDeleteLimiter]
                     = NewLimiter(LastArg(options, "SetPostLimiter",
                                          defaultPutPostDeleteBurst))
           ELSE LET first == CHOOSE i \in Failing(options) :
                                 \A j \in Failing(options) : i <= j
                IN  /\ newRet[1].client = "nil"
                    /\ c = NoClient
                    /\ newRet[1].err = urlParse(options[first].s).err
                    /\ newRet[1].applied = SubSeq(options, 1, first)

\* Two options set the user key: the client holds the second.
C23_Witness ==
    /\ newRet[1].set
    /\ newRet[1].options = <<SetUserKey("userkey"), SetUserKey("other")>>
    /\ clients[1].userKey = "other"
    /\ clients[1].UserAgent = userAgent
    /\ clients[1].BaseURL = defaultBaseURL

(***************************************************************************)
(* The end of a listing.                                                   *)
(***************************************************************************)
\* C24: when the service reports the same total on every page, a listing call
\* ends after finitely many page fetches, whatever size and offset the service
\* reports.
C24_Original == IsListing(1) ~> pc[1] = "done"

\* C24, amended: when the service reports the same total on every page, and on
\* every page the offset that was asked for and a size of at least one, a
\* listing call ends, after no more page fetches than there are items from its
\* first offset on (and one fetch when there are none).
C24_HonestListingEnds ==
    /\ (IsListing(1) /\ op[1].service.honest) ~> pc[1] = "done"
    /\ [](\A c \in Calls :
            (IsListing(c) /\ op[c].service.honest /\ sent[c] # <<>>)
            => LET left == op[c].service.n - sent[c][1].req.Query.offset
               IN  Len(sent[c]) <= (IF left < 1 THEN 1 ELSE left))

\* A listing of MaxItems items in pages of one item has ended.
C24_Witness ==
    /\ pc[1] = "done"
    /\ IsListing(1)
    /\ op[1].service = [honest |-> TRUE, n |-> MaxItems]
    /\ ret[1].err = NoError
    /\ Len(sent[1]) = MaxItems
    /\ Len(ret[1].value) = MaxItems

(***************************************************************************)
(* The two listings side by side.                                          *)
(***************************************************************************)
\* C25: a listing of domains and a listing of aliases that succeed both return
\* the Response of the last page fetched, not nil, and a nil error.
C25_Original ==
    \A c \in Calls :
        (pc[c] = "done" /\ IsListing(c) /\ sent[c] # <<>> /\ ret[c].err = NoError)
        => ret[c].Response = "ptr"

(***************************************************************************)
(* What a listing writes to the PageOptions it was passed.                 *)
(***************************************************************************)
\* C26: a listing writes to the PageOptions it was passed only by advancing
\* the offset: the size is never changed; the offset is as it was passed when
\* one page was fetched; after k >= 2 pages it is the size + offset that page
\* k-1 reported, and is not put back at the end; so a second listing that is
\* passed the same object starts from that advanced offset.
C26_OffsetOnlyAdvances ==
    /\ [][\A c \in Calls :
             /\ pc[c] # "idle"
                => /\ opt'[c].Size = opt[c].Size
                   /\ opt'[c].ptr = opt[c].ptr
                   /\ opt'[c] # opt[c]
                      => /\ NextPageStep(c)
                         /\ opt'[c].Offset = v[c].val.Size + v[c].val.Offset
             /\ (IsListing(c) /\ req'[c] # req[c])
                => req'[c].Query = addOptions(opt'[c])]_vars
    /\ [](\A c \in Calls :
            (IsListing(c) /\ pc[c] = "done" /\ ret[c].err = NoError)
            => /\ opt[c].Size = sent[c][1].req.Query.size
               /\ opt[c].Offset = sent[c][Len(sent[c])].req.Query.offset)
    /\ []((pc[2] # "idle" /\ sent[2] # <<>>)
            => /\ sent[2][1].req.Query = addOptions(opt[1])
               /\ opt[1].Offset = sent[1][Len(sent[1])].req.Query.offset)

\* A listing of two pages has left the offset of its second request in the
\* caller's object, and a second listing passed that object has sent its first
\* request from there.
C26_Witness ==
    /\ pc[1] = "done" /\ IsListing(1) /\ ret[1].err = NoError
    /\ Len(sent[1]) = 2
    /\ opt[1] = PageOptions(1, 1)
    /\ sent[1][1].req.Query = [offset |-> 0, size |-> 1]
    /\ pc[2] = "done" /\ ret[2].err = NoError
    /\ sent[2][1].req.Query = [offset |-> 1, size |-> 1]

(***************************************************************************)
(* No caller waits for ever.                                               *)
(***************************************************************************)
\* A Do that stands at its bucket, and one that has handed its request to the
\* transport.
AtBucket(c) == op[c].name = "Do" /\ pc[c] \in {"wait", "waiting"}

AtTransport(c) == sent[c] # <<>>

\* C27: every Do whose context is never cancelled gets its token in the end
\* and reaches the transport, however many calls contend for the bucket.
C27_Original ==
    \A c \in Calls : AtBucket(c) ~> (AtTransport(c) \/ ctx[c] = "done")

\* The same, as long as the process lives: a Do that stands at its bucket
\* reaches the transport unless its context is cancelled or the process has
\* exited.
NoStarvationWhileAlive ==
    \A c \in Calls : AtBucket(c) ~> (AtTransport(c) \/ ctx[c] = "done" \/ exited)

====
